---- MODULE Spec2Model ----
(***************************************************************************)
(* State-machine model of pymediasoup: the remote session builder          *)
(* (handlers/sdp/remote_sdp.py, media_section.py), the aiortc handler,     *)
(* the Transport and its handles, and the Device.                          *)
(*                                                                         *)
(* Python lists are 0-based; TLA+ sequences are 1-based.  Indices stored   *)
(* in the model (midToIndex, getNextMediaSectionIdx().idx) keep the        *)
(* Python value; a section with Python index i is mediaSections[i + 1].    *)
(***************************************************************************)
EXTENDS Integers, Sequences, FiniteSets, TLC

VARIABLES
    remoteSdp,   \* RemoteSdp instance: the session builder (handler._remoteSdp)
    handler,     \* AiortcHandler instance
    pc,          \* the native engine (RTCPeerConnection) of the handler
    transport,   \* Transport instance
    handles,     \* every Producer/Consumer/DataProducer/DataConsumer created
    tasks,       \* coroutines scheduled on the event loop, not yet run
    device,      \* Device instance
    result       \* the outcome of the last call made, or the last event

vars == <<remoteSdp, handler, pc, transport, handles, tasks, device, result>>

(***************************************************************************)
(* Bounds of the model                                                     *)
(***************************************************************************)
MaxSections == 2      \* appends are cut off at this many media sections
MaxVersion == 3       \* getSdp() calls are cut off at this session version
MaxHandles == 2       \* handles are no longer created beyond this many
MaxStreamId == 2      \* data channels are no longer created beyond this id
MaxRouterCodecs == 2  \* the router's capabilities list at most this many codecs
MaxEmitted == 2       \* 'connect' emissions and probator receives counted up to this

(***************************************************************************)
(* Values                                                                  *)
(***************************************************************************)
None == "None"                        \* Python None
NoError == "ok"                       \* the call returned
ExceptionRaised == "Exception"        \* the call raised
InvalidStateError == "InvalidStateError"
UnsupportedError == "UnsupportedError"
TypeError == "TypeError"
IndexError == "IndexError"
KeyError == "KeyError"
AttributeError == "AttributeError"
NativeError == "NativeError"          \* raised by the native engine

MediaKinds == {"audio", "video"}      \* rtp_parameters.MediaKind
DataChannelMid == "datachannel"       \* mid of the offer-side SCTP section
MidInputs == {"0", "1"}               \* mids of the native engine's offer sections
RecvMids == {"0", "2"}                \* mids a caller of receive() names
NamedMids == MidInputs \cup RecvMids \cup {DataChannelMid}  \* mids closed or disabled
KindInputs == {"video"}               \* kinds a caller of the builder names
DiscardPort == 7                      \* port of every open section

Range(seq) == {seq[i] : i \in 1..Len(seq)}

\* dict helpers for _midToIndex
DictPut(d, k, v) == [x \in (DOMAIN d) \cup {k} |-> IF x = k THEN v ELSE d[x]]
DictDel(d, k) == [x \in (DOMAIN d) \ {k} |-> d[x]]
EmptyDict == [x \in {} |-> 0]

(***************************************************************************)
(* media_section.py                                                        *)
(***************************************************************************)
\* MediaSection.closed
MediaSection_closed(ms) == ms.port = 0

\* AnswerMediaSection.setDtlsRole : the setup attribute for a DTLS role; a
\* section built without DTLS parameters has none
AnswerSetup(dtlsRole) ==
    CASE dtlsRole = None -> None
      [] dtlsRole = "client" -> "active"
      [] dtlsRole = "server" -> "passive"
      [] OTHER -> "actpass"

\* IceParameters
IceParameters(usernameFragment, password, iceLite) ==
    [usernameFragment |-> usernameFragment, password |-> password,
     iceLite |-> iceLite]

\* the ICE parameters the router gave when the transport was created
TransportIceParameters == IceParameters("ufrag0", "pwd0", TRUE)

\* the keys of _mediaDict that disable() and close() pop
DisabledRows == {"ext", "ssrcs", "ssrcGroups", "simulcast", "simulcast_03", "rids"}
ClosedRows == DisabledRows \cup {"extmapAllowMixed"}

\* MediaSection.setIceParameters
MediaSection_setIceParameters(ms, iceParameters) ==
    [ms EXCEPT !.iceUfrag = iceParameters.usernameFragment,
               !.icePwd = iceParameters.password]

\* AnswerMediaSection.__init__ : built from the offer section of the native
\* engine, which offers neither simulcast nor extmap-allow-mixed;
\* audio/video sections are recvonly and carry an 'ext' row ; rows is the
\* set of those keys of _mediaDict that disable() or close() pop
AnswerMediaSection(mid, type, dtlsRole, iceParameters) ==
    [cls |-> "answer", mid |-> mid, type |-> type,
     iceUfrag |-> iceParameters.usernameFragment,
     icePwd |-> iceParameters.password,
     port |-> DiscardPort,
     setup |-> AnswerSetup(dtlsRole),
     direction |-> IF type \in MediaKinds THEN "recvonly" ELSE None,
     rows |-> IF type \in MediaKinds THEN {"ext"} ELSE {}]

\* OfferMediaSection.__init__ : audio/video sections are sendonly and carry
\* ext / ssrcs / ssrcGroups rows.
OfferMediaSection(mid, kind, dtlsRole, iceParameters) ==
    [cls |-> "offer", mid |-> mid, type |-> kind,
     iceUfrag |-> iceParameters.usernameFragment,
     icePwd |-> iceParameters.password,
     port |-> DiscardPort,
     setup |-> IF dtlsRole = None THEN None ELSE "actpass",
     direction |-> IF kind \in MediaKinds THEN "sendonly" ELSE None,
     rows |-> IF kind \in MediaKinds THEN {"ext", "ssrcs", "ssrcGroups"}
              ELSE {}]

\* setDtlsRole of AnswerMediaSection and of OfferMediaSection
MediaSection_setDtlsRole(ms, role) ==
    IF ms.cls = "answer" THEN [ms EXCEPT !.setup = AnswerSetup(role)]
    ELSE [ms EXCEPT !.setup = "actpass"]

\* a disable() that gives the port up as close() does
MediaSection_disable_zeroPort(ms) ==
    [ms EXCEPT !.direction = "inactive", !.port = 0, !.rows = @ \ DisabledRows]

\* MediaSection.disable
MediaSection_disable(ms) ==
    [ms EXCEPT !.direction = "inactive", !.rows = @ \ DisabledRows]

\* MediaSection.close
MediaSection_close(ms) ==
    [ms EXCEPT !.direction = "inactive", !.port = 0, !.rows = @ \ ClosedRows]

\* OfferMediaSection.planBReceive appends to self._mediaDict['ssrcs'] and
\* raises KeyError when the rows are gone; MediaSection.planBReceive (the
\* answer sections) only logs.
planBReceive_raises(ms) == ms.cls = "offer" /\ "ssrcs" \notin ms.rows

(***************************************************************************)
(* remote_sdp.py                                                           *)
(***************************************************************************)
\* RemoteSdp.__init__
RemoteSdp_init(iceParameters, dtlsParameters) ==
    [iceParameters |-> iceParameters,
     icelite |-> iceParameters.iceLite,  \* _sdpDict['icelite'] is 'ice-lite'
     dtlsParameters |-> dtlsParameters,
     dtlsRole |-> IF dtlsParameters THEN "auto" ELSE None,
     mediaSections |-> <<>>,
     midToIndex |-> EmptyDict,
     firstMid |-> None,
     bundleMids |-> <<>>,        \* _sdpDict['groups'][0]['mids'], split at ' '
     sessionVersion |-> 0]

Returned(s) == [err |-> NoError, s |-> s]
Raised(s) == [err |-> ExceptionRaised, s |-> s]

\* the mids of the sections that are not closed, in index order
RECURSIVE OpenMids(_)
OpenMids(sections) ==
    IF sections = <<>> THEN <<>>
    ELSE IF MediaSection_closed(Head(sections))
         THEN OpenMids(Tail(sections))
         ELSE <<Head(sections).mid>> \o OpenMids(Tail(sections))

\* RemoteSdp._regenerateBundleMids
regenerateBundleMids(s) ==
    IF ~s.dtlsParameters THEN s
    ELSE [s EXCEPT !.bundleMids = OpenMids(s.mediaSections)]

\* RemoteSdp.getNextMediaSectionIdx : the loop over enumerate(_mediaSections)
\* from index idx on, then the fall-through return
RECURSIVE getNextMediaSectionIdxFrom(_, _)
getNextMediaSectionIdxFrom(s, idx) ==
    IF idx >= Len(s.mediaSections)
    THEN [idx |-> Len(s.mediaSections), reuseMid |-> None]
    ELSE IF MediaSection_closed(s.mediaSections[idx + 1])
         THEN [idx |-> idx, reuseMid |-> s.mediaSections[idx + 1].mid]
         ELSE getNextMediaSectionIdxFrom(s, idx + 1)

\* RemoteSdp.getNextMediaSectionIdx
getNextMediaSectionIdx(s) == getNextMediaSectionIdxFrom(s, 0)

\* a defect of _addMediaSection: the new section is put in front
addMediaSection_prepends(s, newMediaSection) ==
    regenerateBundleMids(
        [s EXCEPT
            !.firstMid = IF s.firstMid = None THEN newMediaSection.mid
                         ELSE s.firstMid,
            !.mediaSections = <<newMediaSection>> \o s.mediaSections,
            !.midToIndex = DictPut(s.midToIndex, newMediaSection.mid, 0)])

\* RemoteSdp._addMediaSection
addMediaSection(s, newMediaSection) ==
    regenerateBundleMids(
        [s EXCEPT
            !.firstMid = IF s.firstMid = None THEN newMediaSection.mid
                         ELSE s.firstMid,
            !.mediaSections = Append(s.mediaSections, newMediaSection),
            !.midToIndex = DictPut(s.midToIndex, newMediaSection.mid,
                                   Len(s.mediaSections))])

\* a defect of _replaceMediaSection: the replaced section's mid stays in the map
replaceMediaSection_keepsOldMid(s, newMediaSection, reuseMid) ==
    IF reuseMid # None
    THEN IF reuseMid \notin DOMAIN s.midToIndex THEN Raised(s)
         ELSE LET idx == s.midToIndex[reuseMid]
                  replaced == [s EXCEPT !.mediaSections[idx + 1] = newMediaSection]
              IN  Returned(regenerateBundleMids(
                     [replaced EXCEPT !.midToIndex =
                         DictPut(s.midToIndex, newMediaSection.mid, idx)]))
    ELSE IF newMediaSection.mid \notin DOMAIN s.midToIndex THEN Raised(s)
         ELSE LET idx == s.midToIndex[newMediaSection.mid]
              IN  Returned([s EXCEPT !.mediaSections[idx + 1] = newMediaSection])

\* RemoteSdp._replaceMediaSection
replaceMediaSection(s, newMediaSection, reuseMid) ==
    IF reuseMid # None
    THEN IF reuseMid \notin DOMAIN s.midToIndex THEN Raised(s)
         ELSE LET idx == s.midToIndex[reuseMid]
                  oldMediaSection == s.mediaSections[idx + 1]
                  replaced == [s EXCEPT !.mediaSections[idx + 1] = newMediaSection]
              IN  IF oldMediaSection.mid \notin DOMAIN s.midToIndex
                  THEN Raised(replaced)     \* del: KeyError
                  ELSE Returned(regenerateBundleMids(
                         [replaced EXCEPT !.midToIndex =
                             DictPut(DictDel(s.midToIndex, oldMediaSection.mid),
                                     newMediaSection.mid, idx)]))
    ELSE IF newMediaSection.mid \notin DOMAIN s.midToIndex THEN Raised(s)
         ELSE LET idx == s.midToIndex[newMediaSection.mid]
              IN  Returned([s EXCEPT !.mediaSections[idx + 1] = newMediaSection])

\* RemoteSdp.send
RemoteSdp_send(s, offerMid, offerType, reuseMid) ==
    LET mediaSection == AnswerMediaSection(offerMid, offerType, s.dtlsRole,
                                           s.iceParameters)
    IN  IF reuseMid # None THEN replaceMediaSection(s, mediaSection, reuseMid)
        ELSE IF mediaSection.mid \notin DOMAIN s.midToIndex
             THEN Returned(addMediaSection(s, mediaSection))
             ELSE replaceMediaSection(s, mediaSection, None)

\* a defect of receive: the last closed slot is recycled, not the first
RemoteSdp_receive_lastClosed(s, mid, kind) ==
    IF mid \in DOMAIN s.midToIndex
    THEN LET mediaSection == s.mediaSections[s.midToIndex[mid] + 1]
         IN  IF planBReceive_raises(mediaSection) THEN Raised(s)
             ELSE replaceMediaSection(s, mediaSection, None)
    ELSE LET mediaSection == OfferMediaSection(mid, kind, s.dtlsRole,
                                               s.iceParameters)
             closedMediaSections ==
                 SelectSeq(s.mediaSections, MediaSection_closed)
         IN  IF closedMediaSections # <<>>
             THEN replaceMediaSection(s, mediaSection,
                      closedMediaSections[Len(closedMediaSections)].mid)
             ELSE Returned(addMediaSection(s, mediaSection))

\* RemoteSdp.receive
RemoteSdp_receive(s, mid, kind) ==
    IF mid \in DOMAIN s.midToIndex
    THEN LET mediaSection == s.mediaSections[s.midToIndex[mid] + 1]
         IN  IF planBReceive_raises(mediaSection) THEN Raised(s)
             ELSE replaceMediaSection(s, mediaSection, None)
    ELSE LET mediaSection == OfferMediaSection(mid, kind, s.dtlsRole,
                                               s.iceParameters)
             closedMediaSections ==
                 SelectSeq(s.mediaSections, MediaSection_closed)
         IN  IF closedMediaSections # <<>>
             THEN replaceMediaSection(s, mediaSection, closedMediaSections[1].mid)
             ELSE Returned(addMediaSection(s, mediaSection))

\* RemoteSdp.disableMediaSection
RemoteSdp_disableMediaSection(s, mid) ==
    IF mid \notin DOMAIN s.midToIndex THEN Raised(s)
    ELSE LET idx == s.midToIndex[mid]
         IN  Returned([s EXCEPT !.mediaSections[idx + 1] =
                                    MediaSection_disable(@)])

\* a defect of closeMediaSection: the first-registered mid is closed like
\* any other
RemoteSdp_closeMediaSection_closesFirst(s, mid) ==
    IF mid \notin DOMAIN s.midToIndex THEN Raised(s)
    ELSE LET idx == s.midToIndex[mid]
         IN  Returned(regenerateBundleMids(
                 [s EXCEPT !.mediaSections[idx + 1] = MediaSection_close(@)]))

\* RemoteSdp.closeMediaSection
RemoteSdp_closeMediaSection(s, mid) ==
    IF mid \notin DOMAIN s.midToIndex THEN Raised(s)
    ELSE IF mid = s.firstMid THEN RemoteSdp_disableMediaSection(s, mid)
    ELSE LET idx == s.midToIndex[mid]
         IN  Returned(regenerateBundleMids(
                 [s EXCEPT !.mediaSections[idx + 1] = MediaSection_close(@)]))

\* RemoteSdp.sendSctpAssociation
RemoteSdp_sendSctpAssociation(s, offerMid) ==
    addMediaSection(s, AnswerMediaSection(offerMid, "application", s.dtlsRole,
                                          s.iceParameters))

\* RemoteSdp.receiveSctpAssociation
RemoteSdp_receiveSctpAssociation(s) ==
    addMediaSection(s, OfferMediaSection(DataChannelMid, "application",
                                         s.dtlsRole, s.iceParameters))

\* an updateIceParameters that starts the session version anew
RemoteSdp_updateIceParameters_newVersion(s, iceParameters) ==
    [s EXCEPT !.iceParameters = iceParameters,
              !.icelite = iceParameters.iceLite,
              !.sessionVersion = 0]

\* RemoteSdp.updateIceParameters
RemoteSdp_updateIceParameters(s, iceParameters) ==
    [s EXCEPT !.iceParameters = iceParameters,
              !.icelite = iceParameters.iceLite]

\* RemoteSdp.updateDtlsRole
RemoteSdp_updateDtlsRole(s, role) ==
    IF ~s.dtlsParameters THEN s
    ELSE [s EXCEPT !.dtlsRole = role,
                   !.mediaSections =
                       [i \in DOMAIN @ |-> MediaSection_setDtlsRole(@[i], role)]]

\* RemoteSdp.getSdp
RemoteSdp_getSdp(s) == [s EXCEPT !.sessionVersion = @ + 1]

(***************************************************************************)
(* ortc.py : codecs, their matching and the capabilities built from them  *)
(***************************************************************************)
\* an Optional value: the empty sequence is Python None
Nothing == <<>>
Some(v) == <<v>>

\* the truth value Python gives an Optional[int] : None and 0 are false
Truthy(optionalInt) == optionalInt # Nothing /\ optionalInt[1] # 0

\* the parameters dict of a codec, for the keys matchCodecs reads; every
\* key is an Optional, Nothing when the dict lacks it
Parameters(packetizationMode, profileId, profileLevelId) ==
    [packetizationMode |-> packetizationMode, profileId |-> profileId,
     profileLevelId |-> profileLevelId]
NoParameters == Parameters(Nothing, Nothing, Nothing)

\* RtcpFeedback
RtcpFeedback(type, parameter) == [type |-> type, parameter |-> parameter]

\* RtpCodecCapability ; apt is parameters.get('apt') ; channels, the other
\* parameters and rtcpFeedback have the defaults of the class
Codec(kind, mimeType, clockRate, preferredPayloadType) ==
    [kind |-> kind, mimeType |-> mimeType, clockRate |-> clockRate,
     preferredPayloadType |-> preferredPayloadType, apt |-> Nothing,
     channels |-> Nothing, parameters |-> NoParameters, rtcpFeedback |-> <<>>]

\* RtpCodecCapability of the RTX codec that repairs payload type apt
RtxCodec(kind, clockRate, preferredPayloadType, apt) ==
    [kind |-> kind, mimeType |-> kind \o "/rtx", clockRate |-> clockRate,
     preferredPayloadType |-> preferredPayloadType, apt |-> Some(apt),
     channels |-> Nothing, parameters |-> NoParameters, rtcpFeedback |-> <<>>]

\* str.lower() on the mime types in use
Lower(mimeType) ==
    CASE mimeType = "video/VP8" -> "video/vp8"
      [] mimeType = "video/H264" -> "video/h264"
      [] mimeType = "audio/OPUS" -> "audio/opus"
      [] mimeType = "video/VP9" -> "video/vp9"
      [] OTHER -> mimeType

\* dict.get(key, 0) on an Optional entry
GetOr0(entry) == IF entry = Nothing THEN 0 ELSE entry[1]

\* h264_profile_level_id : the profile a profile-level-id names, the
\* default profile when the parameter is absent
H264Profile(profileLevelId) ==
    CASE profileLevelId = Nothing -> "ConstrainedBaseline"
      [] profileLevelId = Some("42e01f") -> "ConstrainedBaseline"
      [] profileLevelId = Some("4d001f") -> "Main"
      [] OTHER -> None

\* h264.isSameProfile
isSameProfile(aParameters, bParameters) ==
    /\ H264Profile(aParameters.profileLevelId) # None
    /\ H264Profile(bParameters.profileLevelId) # None
    /\ H264Profile(aParameters.profileLevelId)
           = H264Profile(bParameters.profileLevelId)

\* h264.generateProfileLevelIdForAnswer for two parameter dicts of the same
\* profile and level: nothing when neither has a profile-level-id, else
\* the profile-level-id of that profile
generateProfileLevelIdForAnswer(aParameters, bParameters) ==
    IF aParameters.profileLevelId = Nothing /\ bParameters.profileLevelId = Nothing
    THEN Nothing
    ELSE IF aParameters.profileLevelId # Nothing THEN aParameters.profileLevelId
    ELSE bParameters.profileLevelId

\* what matchCodecs gives: the exception raised if any, the value
\* returned, and aCodec as the call leaves it
Matched(aCodec, val) == [err |-> NoError, val |-> val, aCodec |-> aCodec]

\* matchCodecs that leaves the channels out of the comparison
matchCodecs_anyChannels(aCodec, bCodec, strict, modify) ==
    IF Lower(aCodec.mimeType) # Lower(bCodec.mimeType) THEN Matched(aCodec, FALSE)
    ELSE IF aCodec.clockRate # bCodec.clockRate THEN Matched(aCodec, FALSE)
    ELSE Matched(aCodec, TRUE)

\* ortc.matchCodecs ; with modify the call writes the profile-level-id of
\* the answer into aCodec.parameters, or deletes the key, which raises
\* KeyError when aCodec.parameters has none
matchCodecs(aCodec, bCodec, strict, modify) ==
    LET aMimeType == Lower(aCodec.mimeType)
        selectedProfileLevelId ==
            generateProfileLevelIdForAnswer(aCodec.parameters, bCodec.parameters)
    IN  IF aMimeType # Lower(bCodec.mimeType) THEN Matched(aCodec, FALSE)
        ELSE IF aCodec.clockRate # bCodec.clockRate THEN Matched(aCodec, FALSE)
        ELSE IF aCodec.channels # bCodec.channels THEN Matched(aCodec, FALSE)
        ELSE IF aMimeType = "video/h264"
        THEN IF GetOr0(aCodec.parameters.packetizationMode)
                    # GetOr0(bCodec.parameters.packetizationMode)
             THEN Matched(aCodec, FALSE)
             ELSE IF ~strict THEN Matched(aCodec, TRUE)
             ELSE IF ~isSameProfile(aCodec.parameters, bCodec.parameters)
             THEN Matched(aCodec, FALSE)
             ELSE IF ~modify THEN Matched(aCodec, TRUE)
             ELSE IF selectedProfileLevelId # Nothing
             THEN Matched([aCodec EXCEPT !.parameters.profileLevelId =
                                             selectedProfileLevelId], TRUE)
             ELSE IF aCodec.parameters.profileLevelId = Nothing
             THEN [err |-> KeyError, val |-> FALSE, aCodec |-> aCodec]
             ELSE Matched([aCodec EXCEPT !.parameters.profileLevelId = Nothing],
                          TRUE)
        ELSE IF aMimeType = "video/vp9"
        THEN IF strict /\ GetOr0(aCodec.parameters.profileId)
                             # GetOr0(bCodec.parameters.profileId)
             THEN Matched(aCodec, FALSE)
             ELSE Matched(aCodec, TRUE)
        ELSE Matched(aCodec, TRUE)

\* ortc.isRtxCodec : codec.mimeType.endswith('/rtx')
isRtxCodec(codec) == codec.mimeType \in {"audio/rtx", "video/rtx"}

\* ortc.reduceRtcpFeedback : for each feedback of codecA the first feedback
\* of codecB with the same type and the same (or no) parameter
reduceRtcpFeedback(codecA, codecB) ==
    LET matchingBFbs(aFb) ==
            SelectSeq(codecB.rtcpFeedback, LAMBDA bFb :
                /\ bFb.type = aFb.type
                /\ \/ bFb.parameter = aFb.parameter
                   \/ bFb.parameter = "" /\ aFb.parameter = "")
        matched == SelectSeq(codecA.rtcpFeedback,
                             LAMBDA aFb : matchingBFbs(aFb) # <<>>)
    IN  [i \in 1 .. Len(matched) |-> matchingBFbs(matched[i])[1]]

\* ortc.getExtendedRtpCapabilities, its first loop: one extended codec per
\* remote codec that is not RTX and has a matching local codec, in remote
\* order, built from the first match (the capability sets in use list no
\* H264 codec on the local side, so that matchCodecs raises nothing here)
RECURSIVE MatchMediaCodecs(_, _)
MatchMediaCodecs(localCaps, remoteCaps) ==
    IF remoteCaps = <<>> THEN <<>>
    ELSE LET remoteCodec == Head(remoteCaps)
             matchingLocalCodecs ==
                 SelectSeq(localCaps, LAMBDA c :
                     matchCodecs(c, remoteCodec, TRUE, TRUE).val)
             rest == MatchMediaCodecs(localCaps, Tail(remoteCaps))
         IN  IF isRtxCodec(remoteCodec) \/ matchingLocalCodecs = <<>> THEN rest
             ELSE <<[kind |-> matchingLocalCodecs[1].kind,
                     mimeType |-> matchingLocalCodecs[1].mimeType,
                     clockRate |-> matchingLocalCodecs[1].clockRate,
                     channels |-> matchingLocalCodecs[1].channels,
                     localPayloadType |-> matchingLocalCodecs[1].preferredPayloadType,
                     localRtxPayloadType |-> Nothing,
                     remotePayloadType |-> remoteCodec.preferredPayloadType,
                     remoteRtxPayloadType |-> Nothing,
                     rtcpFeedback |-> reduceRtcpFeedback(matchingLocalCodecs[1],
                                                         remoteCodec)]>>
                  \o rest

\* ortc.getExtendedRtpCapabilities, its second loop: the RTX payload types
\* of an extended codec, set when both sides list an RTX codec for it
MatchRtxCodecs(extendedCodec, localCaps, remoteCaps) ==
    LET matchingLocalRtxCodecs ==
            SelectSeq(localCaps, LAMBDA c :
                isRtxCodec(c) /\ c.apt = Some(extendedCodec.localPayloadType))
        matchingRemoteRtxCodecs ==
            SelectSeq(remoteCaps, LAMBDA c :
                isRtxCodec(c) /\ c.apt = Some(extendedCodec.remotePayloadType))
    IN  IF matchingLocalRtxCodecs # <<>> /\ matchingRemoteRtxCodecs # <<>>
        THEN [extendedCodec EXCEPT
                 !.localRtxPayloadType =
                     Some(matchingLocalRtxCodecs[1].preferredPayloadType),
                 !.remoteRtxPayloadType =
                     Some(matchingRemoteRtxCodecs[1].preferredPayloadType)]
        ELSE extendedCodec

\* getExtendedRtpCapabilities that builds from the last matching local codec
getExtendedRtpCapabilities_lastMatch(localCaps, remoteCaps) ==
    LET Reverse(seq) == [i \in 1 .. Len(seq) |-> seq[Len(seq) + 1 - i]]
        extendedCodecs == MatchMediaCodecs(Reverse(localCaps), remoteCaps)
    IN  [i \in 1 .. Len(extendedCodecs) |->
            MatchRtxCodecs(extendedCodecs[i], localCaps, remoteCaps)]

\* ortc.getExtendedRtpCapabilities
getExtendedRtpCapabilities(localCaps, remoteCaps) ==
    LET extendedCodecs == MatchMediaCodecs(localCaps, remoteCaps)
    IN  [i \in 1 .. Len(extendedCodecs) |->
            MatchRtxCodecs(extendedCodecs[i], localCaps, remoteCaps)]

\* ortc.getRecvRtpCapabilities, the entries of one extended codec :
\* RtpCodecCapability(**extendedCodec.dict()) takes kind, mimeType and
\* clockRate, an extended codec has no preferredPayloadType to give ; the
\* RTX entry follows when remoteRtxPayloadType is truthy.  The
\* preferredPayloadType of an entry is an Optional
RecvCodecs(extendedCodec) ==
    <<[kind |-> extendedCodec.kind,
       mimeType |-> extendedCodec.mimeType,
       clockRate |-> extendedCodec.clockRate,
       preferredPayloadType |-> Nothing,
       apt |-> Nothing,
       channels |-> extendedCodec.channels,
       parameters |-> NoParameters,
       rtcpFeedback |-> extendedCodec.rtcpFeedback]>>
    \o IF ~Truthy(extendedCodec.remoteRtxPayloadType) THEN <<>>
       ELSE <<[kind |-> extendedCodec.kind,
               mimeType |-> extendedCodec.kind \o "/rtx",
               clockRate |-> extendedCodec.clockRate,
               preferredPayloadType |-> extendedCodec.remoteRtxPayloadType,
               apt |-> Some(extendedCodec.remotePayloadType),
               channels |-> Nothing,
               parameters |-> NoParameters,
               rtcpFeedback |-> <<>>]>>

\* ortc.getRecvRtpCapabilities
RECURSIVE getRecvRtpCapabilities(_)
getRecvRtpCapabilities(extendedRtpCapabilities) ==
    IF extendedRtpCapabilities = <<>> THEN <<>>
    ELSE RecvCodecs(Head(extendedRtpCapabilities))
         \o getRecvRtpCapabilities(Tail(extendedRtpCapabilities))

\* RtpCodecParameters
CodecParameters(mimeType, clockRate, payloadType) ==
    [mimeType |-> mimeType, clockRate |-> clockRate, payloadType |-> payloadType,
     channels |-> Nothing, parameters |-> NoParameters]

\* ortc.reduceCodecs with capCodec, its loop from index idx on: every
\* matching codec is kept; the loop stops only after one that is followed
\* by an RTX codec, which is kept too
RECURSIVE FilterCodecs(_, _, _)
FilterCodecs(codecs, capCodec, idx) ==
    IF idx > Len(codecs) THEN <<>>
    ELSE IF ~matchCodecs(codecs[idx], capCodec, FALSE, FALSE).val
    THEN FilterCodecs(codecs, capCodec, idx + 1)
    ELSE IF idx + 1 <= Len(codecs) /\ isRtxCodec(codecs[idx + 1])
    THEN <<codecs[idx], codecs[idx + 1]>>
    ELSE <<codecs[idx]>> \o FilterCodecs(codecs, capCodec, idx + 1)

\* ortc.reduceCodecs ; capCodec is an Optional ; gives [err, val]
reduceCodecs(codecs, capCodec) ==
    IF capCodec = Nothing
    THEN IF codecs = <<>> THEN [err |-> IndexError, val |-> <<>>]
         ELSE [err |-> NoError,
               val |-> <<codecs[1]>> \o
                       IF Len(codecs) >= 2 /\ isRtxCodec(codecs[2])
                       THEN <<codecs[2]>> ELSE <<>>]
    ELSE LET filteredCodecs == FilterCodecs(codecs, capCodec[1], 1)
         IN  IF filteredCodecs = <<>>
             THEN [err |-> TypeError, val |-> <<>>]
             ELSE [err |-> NoError, val |-> filteredCodecs]

\* ortc.canSend
canSend(kind, extendedRtpCapabilities) ==
    \E i \in 1 .. Len(extendedRtpCapabilities) :
        extendedRtpCapabilities[i].kind = kind

\* ortc.canReceive ; codecs is the list of the payload types of
\* rtpParameters.codecs
canReceive(codecs, extendedRtpCapabilities) ==
    IF codecs = <<>> THEN FALSE
    ELSE \E i \in 1 .. Len(extendedRtpCapabilities) :
             extendedRtpCapabilities[i].remotePayloadType = codecs[1]

\* ortc.RTP_PROBATOR_MID
RTP_PROBATOR_MID == "probator"

\* AiortcHandler.getNativeRtpCapabilities : what the native engine offers
NativeRtpCapabilities ==
    <<Codec("audio", "audio/opus", 48000, 96),
      Codec("video", "video/vp8", 90000, 97)>>

\* the codecs a router may list
RouterCodecs ==
    {Codec("audio", "audio/opus", 48000, 100),
     Codec("video", "video/vp8", 90000, 101),
     Codec("video", "video/vp8", 90000, 103),
     Codec("video", "video/h264", 90000, 102)}

(***************************************************************************)
(* Construction of the handler, its native engine, and the Transport       *)
(***************************************************************************)
Directions == {"send", "recv"}

\* what Device._createTransport hands to the Transport of the Transport
\* model: the extended capabilities of a router that lists one video codec,
\* and the kinds ortc.canSend allows for them
ExtendedRtpCapabilities ==
    getExtendedRtpCapabilities(NativeRtpCapabilities,
                               <<Codec("video", "video/vp8", 90000, 100)>>)
CanProduceByKind ==
    [kind \in MediaKinds |-> canSend(kind, ExtendedRtpCapabilities)]

\* RTCPeerConnection() : no m-line negotiated, no transceiver waiting for an
\* offer, no SCTP transport, not closed
RTCPeerConnection_init ==
    [closed |-> FALSE,
     mlines |-> <<>>,          \* types of the m-lines of the local description
     pending |-> <<>>,         \* kinds of the transceivers not yet in it
     sctp |-> FALSE]           \* createDataChannel has created the SCTP transport

\* AiortcHandler.__init__ and run(direction, ...)
AiortcHandler_init(direction) ==
    [direction |-> direction,
     mapMidTransceiver |-> {},          \* the keys of _mapMidTransceiver
     hasDataChannelMediaSection |-> FALSE,
     nextSendSctpStreamId |-> 0,
     transportReady |-> FALSE,
     probatorReceives |-> 0]            \* receive() calls for the probator

\* Transport.__init__ ; a registry is the list of the (id, handle) items of
\* a dict, in insertion order; a handle is named by its place in handles
Transport_init(direction, listeners, sctpParameters, canProduceByKind, extendedRtpCapabilities) ==
    [closed |-> FALSE,
     direction |-> direction,
     connectionState |-> "new",
     producers |-> <<>>,
     consumers |-> <<>>,
     dataProducers |-> <<>>,
     dataConsumers |-> <<>>,
     probatorConsumerCreated |-> FALSE,
     canProduceByKind |-> canProduceByKind,
     extendedRtpCapabilities |-> extendedRtpCapabilities,
     maxSctpMessageSize |-> sctpParameters,   \* truthy iff SCTP parameters given
     listeners |-> listeners,                 \* events the application subscribed to
     observerClose |-> 0,                     \* observer 'close' notifications
     connectEmitted |-> 0,                    \* 'connect' notifications emitted
     notified |-> {}]          \* handles announced by an observer 'new...' event

\* Device.__init__
Device_init ==
    [loaded |-> FALSE,
     handlerName |-> None,               \* _handlerName is not set yet
     extendedRtpCapabilities |-> Nothing,
     recvRtpCapabilities |-> Nothing,
     canProduceByKind |-> [kind \in MediaKinds |-> FALSE],
     sctpCapabilities |-> Nothing]

\* no call has been made on the Device
NoCall == [op |-> None, arg |-> None, err |-> NoError, val |-> Nothing]

(***************************************************************************)
(* The session builder driven directly through its methods                 *)
(***************************************************************************)
\* what the builder's methods leave alone
nonSdpVars == <<handler, pc, transport, handles, tasks, device, result>>

\* an append is possible only below the bound
Appends(s, r) == Len(r.s.mediaSections) > Len(s.mediaSections)
WithinBound(s, r) == Appends(s, r) => Len(s.mediaSections) < MaxSections

\* AiortcHandler.run constructs the builder with the transport's DTLS
\* parameters
InitSdp ==
    /\ remoteSdp = RemoteSdp_init(TransportIceParameters, TRUE)
    /\ handler = AiortcHandler_init("send")
    /\ pc = RTCPeerConnection_init
    /\ transport = Transport_init("send", {}, TRUE, CanProduceByKind,
                                  ExtendedRtpCapabilities)
    /\ handles = <<>>
    /\ tasks = {}
    /\ device = Device_init
    /\ result = NoCall

SdpSend(mid, kind, reuseMid) ==
    LET r == RemoteSdp_send(remoteSdp, mid, kind, reuseMid)
    IN  /\ WithinBound(remoteSdp, r)
        /\ remoteSdp' = r.s
        /\ UNCHANGED nonSdpVars

SdpReceive(mid, kind) ==
    LET r == RemoteSdp_receive(remoteSdp, mid, kind)
    IN  /\ WithinBound(remoteSdp, r)
        /\ remoteSdp' = r.s
        /\ UNCHANGED nonSdpVars

SdpDisableMediaSection(mid) ==
    LET r == RemoteSdp_disableMediaSection(remoteSdp, mid)
    IN  /\ remoteSdp' = r.s
        /\ UNCHANGED nonSdpVars

SdpCloseMediaSection(mid) ==
    LET r == RemoteSdp_closeMediaSection(remoteSdp, mid)
    IN  /\ remoteSdp' = r.s
        /\ UNCHANGED nonSdpVars

SdpSendSctpAssociation(mid) ==
    /\ Len(remoteSdp.mediaSections) < MaxSections
    /\ remoteSdp' = RemoteSdp_sendSctpAssociation(remoteSdp, mid)
    /\ UNCHANGED nonSdpVars

SdpReceiveSctpAssociation ==
    /\ Len(remoteSdp.mediaSections) < MaxSections
    /\ remoteSdp' = RemoteSdp_receiveSctpAssociation(remoteSdp)
    /\ UNCHANGED nonSdpVars

NextSdp ==
    \/ \E mid \in MidInputs, kind \in KindInputs, reuseMid \in MidInputs \cup {None} :
           SdpSend(mid, kind, reuseMid)
    \/ \E mid \in RecvMids, kind \in KindInputs : SdpReceive(mid, kind)
    \/ \E mid \in NamedMids : SdpDisableMediaSection(mid)
    \/ \E mid \in NamedMids : SdpCloseMediaSection(mid)
    \/ \E mid \in MidInputs : SdpSendSctpAssociation(mid)
    \/ SdpReceiveSctpAssociation

SpecSdp == InitSdp /\ [][NextSdp]_vars

(***************************************************************************)
(* Claims about the session builder                                        *)
(***************************************************************************)
SectionAt(s, idx) == s.mediaSections[idx + 1]
Indices(s) == 0 .. (Len(s.mediaSections) - 1)
ClosedIndices(s) == {i \in Indices(s) : MediaSection_closed(SectionAt(s, i))}
Lowest(S) == CHOOSE i \in S : \A j \in S : i <= j
InBundle(s, mid) == mid \in Range(s.bundleMids)
OthersUntouched(s, t, idx) ==
    \A i \in Indices(s) \ {idx} : SectionAt(t, i) = SectionAt(s, i)

\* the mid->index map sends the mid of every section to the index of that
\* section (so no two sections carry the same mid)
MidsIndexed(s) ==
    \A i \in Indices(s) :
        /\ SectionAt(s, i).mid \in DOMAIN s.midToIndex
        /\ s.midToIndex[SectionAt(s, i).mid] = i

\* C1: with DTLS parameters, after every builder call, in any order, the
\* BUNDLE mids are the mids of exactly the non-closed sections, in index
\* order.
C1_BundleMidsAreTheOpenMids ==
    remoteSdp.dtlsParameters
        => remoteSdp.bundleMids = OpenMids(remoteSdp.mediaSections)

\* the section a closeMediaSection(mid) call addresses, after the call
CloseOnFirstMid(mid) ==
    LET idx == remoteSdp.midToIndex[mid]
    IN  /\ SectionAt(remoteSdp', idx) = MediaSection_disable(SectionAt(remoteSdp, idx))
        /\ SectionAt(remoteSdp', idx).port # 0
        /\ InBundle(remoteSdp', mid)

CloseOnOtherMid(mid) ==
    LET idx == remoteSdp.midToIndex[mid]
    IN  /\ SectionAt(remoteSdp', idx) = MediaSection_close(SectionAt(remoteSdp, idx))
        /\ SectionAt(remoteSdp', idx).port = 0

C3_SectionsKeepTheirIndex ==
    [][LET s == remoteSdp
           t == remoteSdp'
           changed == {i \in Indices(s) : SectionAt(t, i) # SectionAt(s, i)}
       IN  /\ Len(t.mediaSections) >= Len(s.mediaSections)
           /\ Cardinality(changed) <= 1
           /\ Len(t.mediaSections) > Len(s.mediaSections) =>
                 /\ Len(t.mediaSections) = Len(s.mediaSections) + 1
                 /\ changed = {}
           /\ \A mid \in NamedMids :
                 (SdpCloseMediaSection(mid) /\ mid \in DOMAIN s.midToIndex) =>
                     LET idx == s.midToIndex[mid]
                     IN  /\ SectionAt(t, idx).mid = SectionAt(s, idx).mid
                         /\ SectionAt(s, idx).mid = mid
                         /\ OthersUntouched(s, t, idx)
                         /\ t.midToIndex = s.midToIndex]_vars

\* closeMediaSection has left a closed section behind the first-registered
\* one, which is still open, the map still pointing at both
C3_Witness ==
    /\ MidsIndexed(remoteSdp)
    /\ remoteSdp.firstMid \in DOMAIN remoteSdp.midToIndex
    /\ \E i \in ClosedIndices(remoteSdp) :
          /\ remoteSdp.midToIndex[remoteSdp.firstMid] < i
          /\ SectionAt(remoteSdp, i).mid \in NamedMids

\* what getNextMediaSectionIdx is to return
NextIdxIsLowestClosed(s) ==
    LET next == getNextMediaSectionIdx(s)
    IN  IF ClosedIndices(s) # {}
        THEN /\ next.idx = Lowest(ClosedIndices(s))
             /\ next.reuseMid = SectionAt(s, next.idx).mid
        ELSE next = [idx |-> Len(s.mediaSections), reuseMid |-> None]

\* where receive() is to put the section of a mid no section carries
ReceivedAtLowestClosed(s, t, mid, kind) ==
    IF ClosedIndices(s) # {}
    THEN /\ Len(t.mediaSections) = Len(s.mediaSections)
         /\ SectionAt(t, Lowest(ClosedIndices(s)))
                = OfferMediaSection(mid, kind, s.dtlsRole, s.iceParameters)
         /\ OthersUntouched(s, t, Lowest(ClosedIndices(s)))
    ELSE t.mediaSections =
             Append(s.mediaSections,
                    OfferMediaSection(mid, kind, s.dtlsRole, s.iceParameters))

NewMid(s, mid) ==
    /\ mid \notin DOMAIN s.midToIndex
    /\ \A i \in Indices(s) : SectionAt(s, i).mid # mid

World ==
    [sdp |-> remoteSdp, handler |-> handler, pc |-> pc,
     transport |-> transport, handles |-> handles, tasks |-> tasks,
     trace |-> <<>>]           \* the steps the call in progress has taken

\* the call takes a step
Trace(w, step) == [w EXCEPT !.trace = Append(@, step)]

Ok(w) == [err |-> NoError, w |-> w, val |-> None]
OkVal(w, v) == [err |-> NoError, w |-> w, val |-> v]
Fail(e, w) == [err |-> e, w |-> w, val |-> None]
Failed(r) == r.err # NoError

\* the next statement of a call: F runs in the objects r left unless r raised
Then(r, F(_)) == IF Failed(r) THEN r ELSE F(r.w)
\* the same, for a statement that uses the value returned
ThenVal(r, F(_, _)) == IF Failed(r) THEN r ELSE F(r.w, r.val)

\* a call of a builder method from the handler
SdpStep(w, r) == [err |-> r.err, w |-> [w EXCEPT !.sdp = r.s], val |-> None]

(***************************************************************************)
(* The native engine, as the handler uses it.  It numbers its m-lines in   *)
(* order: the m-line at index i of an offer has mid str(i).  An offer      *)
(* lists the m-lines of the local description, then the transceivers added *)
(* since, then the SCTP m-line if it is new.                               *)
(***************************************************************************)
NativeSteps ==
    {"createOffer", "createAnswer", "setLocalDescription", "setRemoteDescription"}
AssertNotClosed == {"addTransceiver", "createOffer", "createAnswer"}

\* step raises: it is the step that fails in this call, or the engine is
\* closed and the step asserts that it is not
NativeRaises(w, step, fail) ==
    fail = step \/ (w.pc.closed /\ step \in AssertNotClosed)

\* the call continues into state after unless the step raises
Native(w, step, fail, after) ==
    IF NativeRaises(w, step, fail) THEN Fail(NativeError, w) ELSE Ok(after)

\* pc.createOffer() : the types of the offer's m-lines
LocalOffer(p) ==
    p.mlines \o p.pending \o
    (IF p.sctp /\ "application" \notin Range(p.mlines)
     THEN <<"application">> ELSE <<>>)

\* pc.setLocalDescription(offer)
SetLocalOffer(p) == [p EXCEPT !.mlines = LocalOffer(p), !.pending = <<>>]

\* index of the first m-line of type application
FirstApplication(offer) ==
    CHOOSE i \in 0 .. (Len(offer) - 1) :
        /\ offer[i + 1] = "application"
        /\ \A j \in 0 .. (i - 1) : offer[j + 1] # "application"

SctpNumStreams == 1024                \* SCTP_NUM_STREAMS['MIS']

(***************************************************************************)
(* aiortc_handler.py                                                       *)
(***************************************************************************)
\* Transport._handleHandler on_connect, awaited by emit_for_results: raises
\* on a closed Transport; else emits 'connect', and a subscriber that raises
\* makes the emit raise
Transport_on_connect(w, fail) ==
    IF w.transport.closed THEN Fail(InvalidStateError, w)
    ELSE LET emitted == Trace([w EXCEPT !.transport.connectEmitted = @ + 1],
                              "connect")
         IN  IF "connect" \in w.transport.listeners /\ fail = "connect"
             THEN Fail(ExceptionRaised, emitted)
             ELSE Ok(emitted)

\* _setupTransport that does not record that the transport is ready
AiortcHandler_setupTransport_forgetful(w, localDtlsRole, fail) ==
    LET w1 == [w EXCEPT !.sdp = RemoteSdp_updateDtlsRole(@,
                   IF localDtlsRole = "client" THEN "server" ELSE "client")]
    IN  Transport_on_connect(w1, fail)

\* AiortcHandler._setupTransport
AiortcHandler_setupTransport(w, localDtlsRole, fail) ==
    LET w1 == [w EXCEPT !.sdp = RemoteSdp_updateDtlsRole(@,
                   IF localDtlsRole = "client" THEN "server" ELSE "client")]
    IN  Then(Transport_on_connect(w1, fail),
             LAMBDA u : Ok([u EXCEPT !.handler.transportReady = TRUE]))

\* the step `if not self._transportReady: await self._setupTransport(...)`
SetupIfNotReady(w, localDtlsRole, fail) ==
    IF w.handler.transportReady THEN Ok(w)
    ELSE AiortcHandler_setupTransport(w, localDtlsRole, fail)

\* the step `sdp=self.remoteSdp.getSdp()`
GetSdp(w) == Ok([w EXCEPT !.sdp = RemoteSdp_getSdp(@)])

\* AiortcHandler.send ; returns localId
AiortcHandler_send(w, kind, fail) ==
    IF w.handler.direction # "send" THEN Fail(ExceptionRaised, w)
    ELSE
    LET mediaSectionIdx == getNextMediaSectionIdx(w.sdp)
        \* self.pc.addTransceiver(track, direction='sendonly')
        w1 == [w EXCEPT !.pc.pending = Append(@, kind)]
        offer == LocalOffer(w1.pc)
        \* transceiver.mid : the new transceiver is the last one added
        localId == ToString(Len(w1.pc.mlines) + Len(w1.pc.pending) - 1)
        r1 == Native(w, "addTransceiver", fail, w1)
        r2 == Then(r1, LAMBDA u : Native(u, "createOffer", fail, u))
        r3 == Then(r2, LAMBDA u : SetupIfNotReady(u, "server", fail))
        r4 == Then(r3, LAMBDA u :
                  Native(u, "setLocalDescription", fail,
                         [u EXCEPT !.pc = SetLocalOffer(@)]))
        r5 == Then(r4, LAMBDA u :
                  IF mediaSectionIdx.idx >= Len(offer) THEN Fail(IndexError, u)
                  ELSE SdpStep(u, RemoteSdp_send(u.sdp,
                                      ToString(mediaSectionIdx.idx),
                                      offer[mediaSectionIdx.idx + 1],
                                      mediaSectionIdx.reuseMid)))
        r6 == Then(r5, LAMBDA u : GetSdp(u))
        r7 == Then(r6, LAMBDA u :
                  Native(u, "setRemoteDescription", fail,
                         [u EXCEPT !.handler.mapMidTransceiver = @ \cup {localId}]))
    IN  Then(r7, LAMBDA u : OkVal(u, localId))

\* AiortcHandler.stopSending
AiortcHandler_stopSending(w, localId) == Ok(w)

\* AiortcHandler.sendDataChannel ; returns the stream id
AiortcHandler_sendDataChannel(w, fail) ==
    IF w.handler.direction # "send" THEN Fail(ExceptionRaised, w)
    ELSE
    LET streamId == w.handler.nextSendSctpStreamId
        w1 == [w EXCEPT !.pc.sctp = TRUE,
                        !.handler.nextSendSctpStreamId = (@ + 1) % SctpNumStreams]
        offer == LocalOffer(w1.pc)
        r1 == Native(w1, "createOffer", fail, w1)
        r2 == Then(r1, LAMBDA u :
                  IF "application" \notin Range(offer)
                  THEN Fail(ExceptionRaised, u) ELSE Ok(u))
        r3 == Then(r2, LAMBDA u : SetupIfNotReady(u, "server", fail))
        r4 == Then(r3, LAMBDA u :
                  Native(u, "setLocalDescription", fail,
                         [u EXCEPT !.pc = SetLocalOffer(@)]))
        r5 == Then(r4, LAMBDA u :
                  Ok([u EXCEPT !.sdp = RemoteSdp_sendSctpAssociation(@,
                                   ToString(FirstApplication(offer)))]))
        r6 == Then(r5, LAMBDA u : GetSdp(u))
        r7 == Then(r6, LAMBDA u :
                  Native(u, "setRemoteDescription", fail,
                         [u EXCEPT !.handler.hasDataChannelMediaSection = TRUE]))
    IN  IF w1.handler.hasDataChannelMediaSection THEN OkVal(w1, streamId)
        ELSE Then(r7, LAMBDA u : OkVal(u, streamId))

\* AiortcHandler.receive ; returns localId
AiortcHandler_receive(w, mid, kind, fail) ==
    IF w.handler.direction # "recv" THEN Fail(ExceptionRaised, w)
    ELSE
    LET localId == IF mid # None THEN mid
                   ELSE ToString(Cardinality(w.handler.mapMidTransceiver))
        w0 == IF mid = RTP_PROBATOR_MID
              THEN [w EXCEPT !.handler.probatorReceives = @ + 1] ELSE w
        r1 == SdpStep(w0, RemoteSdp_receive(w.sdp, localId, kind))
        r2 == Then(r1, LAMBDA u : GetSdp(u))
        r3 == Then(r2, LAMBDA u : Native(u, "setRemoteDescription", fail, u))
        r4 == Then(r3, LAMBDA u : Native(u, "createAnswer", fail, u))
        \* the answer has one m-line per section of the offer
        r5 == Then(r4, LAMBDA u :
                  IF \A i \in 1 .. Len(u.sdp.mediaSections) :
                         u.sdp.mediaSections[i].mid # localId
                  THEN Fail(IndexError, u) ELSE Ok(u))
        r6 == Then(r5, LAMBDA u : SetupIfNotReady(u, "client", fail))
        r7 == Then(r6, LAMBDA u :
                  Native(u, "setLocalDescription", fail,
                         [u EXCEPT !.handler.mapMidTransceiver = @ \cup {localId}]))
    IN  Then(r7, LAMBDA u : OkVal(u, localId))

\* AiortcHandler.stopReceiving
AiortcHandler_stopReceiving(w, localId, fail) ==
    IF w.handler.direction # "recv" THEN Fail(ExceptionRaised, w)
    ELSE IF localId \notin w.handler.mapMidTransceiver THEN Fail(ExceptionRaised, w)
    ELSE
    LET r1 == SdpStep(w, RemoteSdp_closeMediaSection(w.sdp, localId))
        r2 == Then(r1, LAMBDA u : GetSdp(u))
        r3 == Then(r2, LAMBDA u : Native(u, "setRemoteDescription", fail, u))
        r4 == Then(r3, LAMBDA u : Native(u, "createAnswer", fail, u))
    IN  Then(r4, LAMBDA u : Native(u, "setLocalDescription", fail, u))

\* AiortcHandler.receiveDataChannel
AiortcHandler_receiveDataChannel(w, fail) ==
    IF w.handler.direction # "recv" THEN Fail(ExceptionRaised, w)
    ELSE
    LET w1 == [w EXCEPT !.pc.sctp = TRUE]
        r1 == GetSdp([w1 EXCEPT !.sdp = RemoteSdp_receiveSctpAssociation(@)])
        r2 == Then(r1, LAMBDA u : Native(u, "setRemoteDescription", fail, u))
        r3 == Then(r2, LAMBDA u : Native(u, "createAnswer", fail, u))
        r4 == Then(r3, LAMBDA u : SetupIfNotReady(u, "client", fail))
    IN  IF w1.handler.hasDataChannelMediaSection THEN Ok(w1)
        ELSE Then(r4, LAMBDA u :
                 Native(u, "setLocalDescription", fail,
                        [u EXCEPT !.handler.hasDataChannelMediaSection = TRUE]))

\* AiortcHandler.close
AiortcHandler_close(w) == Ok([w EXCEPT !.pc.closed = TRUE])


(***************************************************************************)
(* producer.py, consumer.py, data_producer.py, data_consumer.py            *)
(***************************************************************************)
HandleClasses == {"Producer", "Consumer", "DataProducer", "DataConsumer"}

\* the constructors: id, localId (media handles), sctpStreamParameters
\* (DataProducer) with its streamId apart; observerClose counts the observer
\* 'close' notifications the handle has emitted
NewHandle(cls, id, localId, streamId) ==
    [cls |-> cls, id |-> id, localId |-> localId, streamId |-> streamId,
     sctpStreamParameters |-> Nothing,
     kind |-> None,           \* track.kind of a Producer or a Consumer
     closed |-> FALSE, observerClose |-> 0]

\* the Transport registry that holds the handles of a class
RegistryOf(cls) ==
    CASE cls = "Producer" -> "producers"
      [] cls = "Consumer" -> "consumers"
      [] cls = "DataProducer" -> "dataProducers"
      [] cls = "DataConsumer" -> "dataConsumers"

\* dict operations on a registry
RegHas(reg, id) == \E i \in 1 .. Len(reg) : reg[i].id = id
RegPut(reg, id, h) ==
    IF RegHas(reg, id)
    THEN [i \in 1 .. Len(reg) |->
             IF reg[i].id = id THEN [id |-> id, h |-> h] ELSE reg[i]]
    ELSE Append(reg, [id |-> id, h |-> h])
RegDel(reg, id) == SelectSeq(reg, LAMBDA e : e.id # id)

\* Transport._handleProducer / _handleConsumer / _handleDataProducer /
\* _handleDataConsumer : the on_close listener of the handle's '@close'
Transport_on_close(w, h, fail) ==
    LET hd == w.handles[h]
        reg == RegistryOf(hd.cls)
        w1 == [w EXCEPT !.transport[reg] = RegDel(@, hd.id)]
    IN  IF ~RegHas(w.transport[reg], hd.id) THEN Fail(KeyError, w)
        ELSE IF hd.cls \in {"DataProducer", "DataConsumer"} THEN Ok(w1)
        ELSE IF w1.transport.closed THEN Ok(w1)
        ELSE IF hd.cls = "Producer" THEN AiortcHandler_stopSending(w1, hd.localId)
        ELSE AiortcHandler_stopReceiving(w1, hd.localId, fail)

\* self._observer.emit('close')
ObserverEmitClose(w, h) == [w EXCEPT !.handles[h].observerClose = @ + 1]

\* close() of Producer, Consumer and DataProducer: the flag, then the
\* awaited '@close' listener, then the observer notification
CloseAwaitingListener(w, h, fail) ==
    IF w.handles[h].closed THEN Ok(w)
    ELSE Then(Transport_on_close([w EXCEPT !.handles[h].closed = TRUE], h, fail),
              LAMBDA u : Ok(ObserverEmitClose(u, h)))

Producer_close(w, h, fail) == CloseAwaitingListener(w, h, fail)
Consumer_close(w, h, fail) == CloseAwaitingListener(w, h, fail)
DataProducer_close(w, h, fail) == CloseAwaitingListener(w, h, fail)

\* DataConsumer.close : self._destroyTrack() is not an attribute of the class
DataConsumer_close(w, h) ==
    IF w.handles[h].closed THEN Ok(w)
    ELSE Fail(AttributeError, [w EXCEPT !.handles[h].closed = TRUE])

Handle_close(w, h, fail) ==
    CASE w.handles[h].cls = "Producer" -> Producer_close(w, h, fail)
      [] w.handles[h].cls = "Consumer" -> Consumer_close(w, h, fail)
      [] w.handles[h].cls = "DataProducer" -> DataProducer_close(w, h, fail)
      [] w.handles[h].cls = "DataConsumer" -> DataConsumer_close(w, h)

\* transportClosed() of Producer, Consumer and DataProducer
Producer_transportClosed(w, h) ==
    IF w.handles[h].closed THEN Ok(w)
    ELSE Ok(ObserverEmitClose([w EXCEPT !.handles[h].closed = TRUE], h))
Consumer_transportClosed(w, h) == Producer_transportClosed(w, h)
DataProducer_transportClosed(w, h) == Producer_transportClosed(w, h)

\* DataConsumer.transportClosed : the same missing attribute
DataConsumer_transportClosed(w, h) == DataConsumer_close(w, h)

Handle_transportClosed(w, h) ==
    CASE w.handles[h].cls = "Producer" -> Producer_transportClosed(w, h)
      [] w.handles[h].cls = "Consumer" -> Consumer_transportClosed(w, h)
      [] w.handles[h].cls = "DataProducer" -> DataProducer_transportClosed(w, h)
      [] w.handles[h].cls = "DataConsumer" -> DataConsumer_transportClosed(w, h)

\* the data channel's 'close' event (DataProducer on_close,
\* DataConsumer.onDataChannelClose): emit('@close') is not awaited, so the
\* Transport's async listener becomes a task of the event loop
Handle_onDataChannelClose(w, h) ==
    IF w.handles[h].closed THEN Ok(w)
    ELSE Ok(ObserverEmitClose(
             [w EXCEPT !.handles[h].closed = TRUE,
                       !.tasks = @ \cup {[registry |-> RegistryOf(w.handles[h].cls),
                                          id |-> w.handles[h].id]}], h))

\* the scheduled listener runs: del self._dataProducers[id] (a KeyError ends
\* the task and nothing else)
RunOnClose(w, task) ==
    [w EXCEPT !.tasks = @ \ {task},
              !.transport[task.registry] = RegDel(@, task.id)]


(***************************************************************************)
(* transport.py                                                            *)
(***************************************************************************)
\* the handle is appended to handles and stored in the registry under id
Register(w, cls, id, localId, streamId) ==
    [w EXCEPT !.handles = Append(@, NewHandle(cls, id, localId, streamId)),
              !.transport[RegistryOf(cls)] = RegPut(@, id, Len(w.handles) + 1),
              !.trace = Append(@, "register")]

\* Producer(..., track=track) or Consumer(..., track=track) registered as the
\* last handle : its kind is the kind of its track
WithKind(w, kind) == [w EXCEPT !.handles[Len(w.handles)].kind = kind]

\* self._observer.emit('newproducer', producer) and its like, for the handle
\* built last
ObserverEmitNew(w, event) ==
    [w EXCEPT !.transport.notified = @ \cup {Len(w.handles)},
              !.trace = Append(@, event)]

\* ids = await self.emit_for_results(event, ...) ; ids[0] : the subscriber
\* raises, or there is none and ids is empty, or it returns the id
EmitForId(w, event, fail) ==
    IF event \notin w.transport.listeners THEN Fail(IndexError, w)
    ELSE IF fail = event THEN Fail(ExceptionRaised, Trace(w, event))
    ELSE Ok(Trace(w, event))

\* produce that registers the Producer before it asks the 'produce'
\* subscriber for the id
Transport_produce_registeringFirst(w, track, id, fail) ==
    IF track.kind = None THEN Fail(TypeError, w)
    ELSE IF w.transport.direction # "send" THEN Fail(UnsupportedError, w)
    ELSE IF ~w.transport.canProduceByKind[track.kind] THEN Fail(UnsupportedError, w)
    ELSE IF track.readyState = "ended" THEN Fail(InvalidStateError, w)
    ELSE IF "connect" \notin w.transport.listeners THEN Fail(TypeError, w)
    ELSE
    ThenVal(AiortcHandler_send(Trace(w, "handler.send"), track.kind, fail),
            LAMBDA u, localId :
                Then(EmitForId(WithKind(
                                   Register(u, "Producer", id, localId, None),
                                   track.kind),
                               "produce", fail),
                     LAMBDA v : Ok(ObserverEmitNew(v, "newproducer"))))

\* Transport.produce ; track is [kind, readyState], both None for no track
Transport_produce(w, track, id, fail) ==
    IF track.kind = None THEN Fail(TypeError, w)
    ELSE IF w.transport.direction # "send" THEN Fail(UnsupportedError, w)
    ELSE IF ~w.transport.canProduceByKind[track.kind] THEN Fail(UnsupportedError, w)
    ELSE IF track.readyState = "ended" THEN Fail(InvalidStateError, w)
    ELSE IF "connect" \notin w.transport.listeners THEN Fail(TypeError, w)
    ELSE
    ThenVal(AiortcHandler_send(Trace(w, "handler.send"), track.kind, fail),
            LAMBDA u, localId :
                Then(EmitForId(u, "produce", fail),
                     LAMBDA v :
                         Ok(ObserverEmitNew(
                                WithKind(
                                    Register(v, "Producer", id, localId, None),
                                    track.kind),
                                "newproducer"))))

\* consume that receives the probator for the first Consumer of any kind
Transport_consume_probingAnyKind(w, id, kind, mid, codecs, fail, probatorFail) ==
    IF w.transport.closed THEN Fail(InvalidStateError, w)
    ELSE IF w.transport.direction # "recv" THEN Fail(UnsupportedError, w)
    ELSE IF "connect" \notin w.transport.listeners
            /\ w.transport.connectionState = "new" THEN Fail(TypeError, w)
    ELSE IF ~canReceive(codecs, w.transport.extendedRtpCapabilities)
         THEN Fail(UnsupportedError, w)
    ELSE
    ThenVal(AiortcHandler_receive(Trace(w, "handler.receive"), mid, kind, fail),
            LAMBDA u, localId :
                LET w2 == WithKind(Register(u, "Consumer", id, localId, None),
                                   kind)
                    consumer == Len(w2.handles)
                IN  IF w2.transport.probatorConsumerCreated
                    THEN Ok(ObserverEmitNew(w2, "newconsumer"))
                    ELSE Then(AiortcHandler_receive(
                                  Trace(w2, "handler.receive"),
                                  RTP_PROBATOR_MID, "video", probatorFail),
                              LAMBDA v :
                                  Ok([v EXCEPT
                                         !.transport.probatorConsumerCreated = TRUE,
                                         !.transport.notified = @ \cup {consumer},
                                         !.trace = Append(@, "newconsumer")])))

\* Transport.consume ; fail is the step that raises in the handler's receive
\* of the consumer, probatorFail the one in its receive of the probator
Transport_consume(w, id, kind, mid, codecs, fail, probatorFail) ==
    IF w.transport.closed THEN Fail(InvalidStateError, w)
    ELSE IF w.transport.direction # "recv" THEN Fail(UnsupportedError, w)
    ELSE IF "connect" \notin w.transport.listeners
            /\ w.transport.connectionState = "new" THEN Fail(TypeError, w)
    ELSE IF ~canReceive(codecs, w.transport.extendedRtpCapabilities)
         THEN Fail(UnsupportedError, w)
    ELSE
    ThenVal(AiortcHandler_receive(Trace(w, "handler.receive"), mid, kind, fail),
            LAMBDA u, localId :
                LET w2 == WithKind(Register(u, "Consumer", id, localId, None),
                                   kind)
                    consumer == Len(w2.handles)
                IN  IF w2.transport.probatorConsumerCreated \/ kind # "video"
                    THEN Ok(ObserverEmitNew(w2, "newconsumer"))
                    ELSE Then(AiortcHandler_receive(
                                  Trace(w2, "handler.receive"),
                                  RTP_PROBATOR_MID, "video", probatorFail),
                              LAMBDA v :
                                  Ok([v EXCEPT
                                         !.transport.probatorConsumerCreated = TRUE,
                                         !.transport.notified = @ \cup {consumer},
                                         !.trace = Append(@, "newconsumer")])))

\* DataProducerOptions(ordered, maxPacketLifeTime, maxRetransmits) ; each
\* field is Optional
DataProducerOptions(ordered, maxPacketLifeTime, maxRetransmits) ==
    [ordered |-> ordered, maxPacketLifeTime |-> maxPacketLifeTime,
     maxRetransmits |-> maxRetransmits]

\* Transport.produceData : `if options.maxPacketLifeTime or
\* options.maxRetransmits: options.ordered = False`
NormalisedOptions(options) ==
    IF Truthy(options.maxPacketLifeTime) \/ Truthy(options.maxRetransmits)
    THEN [options EXCEPT !.ordered = Some(FALSE)]
    ELSE options

\* SctpStreamParameters(...) as AiortcHandler.sendDataChannel builds it from
\* the arguments it was called with ; the fields are kept as given
SctpStreamParameters(options) ==
    Some([ordered |-> options.ordered,
          maxPacketLifeTime |-> options.maxPacketLifeTime,
          maxRetransmits |-> options.maxRetransmits])

\* DataProducer(..., sctpStreamParameters=...) registered as the last handle
WithSctpStreamParameters(w, sctpStreamParameters) ==
    [w EXCEPT !.handles[Len(w.handles)].sctpStreamParameters =
                  sctpStreamParameters]

\* produceData without its check of the SCTP parameters
Transport_produceData_withoutSctpCheck(w, id, options, fail) ==
    IF w.transport.direction # "send" THEN Fail(UnsupportedError, w)
    ELSE IF "connect" \notin w.transport.listeners
            /\ w.transport.connectionState = "new" THEN Fail(TypeError, w)
    ELSE IF "producedata" \notin w.transport.listeners THEN Fail(TypeError, w)
    ELSE
    ThenVal(AiortcHandler_sendDataChannel(Trace(w, "handler.sendDataChannel"), fail),
            LAMBDA u, streamId :
                Then(EmitForId(u, "producedata", fail),
                     LAMBDA v :
                         Ok(ObserverEmitNew(
                                WithSctpStreamParameters(
                                    Register(v, "DataProducer", id, None, streamId),
                                    SctpStreamParameters(NormalisedOptions(options))),
                                "newdataproducer"))))

\* Transport.produceData
Transport_produceData(w, id, options, fail) ==
    IF w.transport.direction # "send" THEN Fail(UnsupportedError, w)
    ELSE IF ~w.transport.maxSctpMessageSize THEN Fail(UnsupportedError, w)
    ELSE IF "connect" \notin w.transport.listeners
            /\ w.transport.connectionState = "new" THEN Fail(TypeError, w)
    ELSE IF "producedata" \notin w.transport.listeners THEN Fail(TypeError, w)
    ELSE
    ThenVal(AiortcHandler_sendDataChannel(Trace(w, "handler.sendDataChannel"), fail),
            LAMBDA u, streamId :
                Then(EmitForId(u, "producedata", fail),
                     LAMBDA v :
                         Ok(ObserverEmitNew(
                                WithSctpStreamParameters(
                                    Register(v, "DataProducer", id, None, streamId),
                                    SctpStreamParameters(NormalisedOptions(options))),
                                "newdataproducer"))))

\* Transport.getStats
Transport_getStats(w) ==
    IF w.transport.closed THEN Fail(InvalidStateError, w)
    ELSE Ok(Trace(w, "handler.getTransportStats"))

\* AiortcHandler.restartIce : the session takes the new ICE parameters, and
\* a ready handler renegotiates with the native engine
AiortcHandler_restartIce(world, iceParameters, fail) ==
    LET w == [world EXCEPT !.sdp = RemoteSdp_updateIceParameters(@, iceParameters)]
    IN
    IF ~w.handler.transportReady THEN Ok(w)
    ELSE IF w.handler.direction = "send"
    THEN Then(Native(w, "createOffer", fail, w),
              LAMBDA u :
                  Then(Native(u, "setLocalDescription", fail,
                              [u EXCEPT !.pc = SetLocalOffer(@)]),
                       LAMBDA v :
                           Then(GetSdp(v),
                                LAMBDA x : Native(x, "setRemoteDescription",
                                                  fail, x))))
    ELSE Then(GetSdp(w),
              LAMBDA u :
                  Then(Native(u, "setRemoteDescription", fail, u),
                       LAMBDA v :
                           Then(Native(v, "createAnswer", fail, v),
                                LAMBDA x : Native(x, "setLocalDescription",
                                                  fail, x))))

\* Transport.restartIce
Transport_restartIce(w, iceParameters, fail) ==
    IF w.transport.closed THEN Fail(InvalidStateError, w)
    ELSE AiortcHandler_restartIce(Trace(w, "handler.restartIce"),
                                  iceParameters, fail)

\* Transport.updateIceServers ; the handler's updateIceServers only logs
Transport_updateIceServers(w) ==
    IF w.transport.closed THEN Fail(InvalidStateError, w)
    ELSE Ok(Trace(w, "handler.updateIceServers"))

\* consumeData without its check of the 'connect' subscriber
Transport_consumeData_unguarded(w, id, fail) ==
    IF w.transport.closed THEN Fail(InvalidStateError, w)
    ELSE IF w.transport.direction # "recv" THEN Fail(UnsupportedError, w)
    ELSE
    Then(AiortcHandler_receiveDataChannel(
             Trace(w, "handler.receiveDataChannel"), fail),
         LAMBDA u :
             Ok(ObserverEmitNew(Register(u, "DataConsumer", id, None, None),
                                "newdataconsumer")))

\* Transport.consumeData
Transport_consumeData(w, id, fail) ==
    IF w.transport.closed THEN Fail(InvalidStateError, w)
    ELSE IF w.transport.direction # "recv" THEN Fail(UnsupportedError, w)
    ELSE IF "connect" \notin w.transport.listeners
            /\ w.transport.connectionState = "new" THEN Fail(TypeError, w)
    ELSE
    Then(AiortcHandler_receiveDataChannel(
             Trace(w, "handler.receiveDataChannel"), fail),
         LAMBDA u :
             Ok(ObserverEmitNew(Register(u, "DataConsumer", id, None, None),
                                "newdataconsumer")))

\* Transport.close : `for process in process_dict.values():
\* process.transportClosed()`
RECURSIVE TransportClosedEach(_, _)
TransportClosedEach(w, items) ==
    IF items = <<>> THEN Ok(w)
    ELSE Then(Handle_transportClosed(w, Head(items).h),
              LAMBDA u : TransportClosedEach(u, Tail(items)))

\* Transport.close : the loop over the four registries
RECURSIVE CloseAllProcess(_, _)
CloseAllProcess(w, registries) ==
    IF registries = <<>> THEN Ok(w)
    ELSE Then(TransportClosedEach(w, w.transport[Head(registries)]),
              LAMBDA u :
                  CloseAllProcess([u EXCEPT !.transport[Head(registries)] = <<>>],
                                  Tail(registries)))

\* Transport.close
Transport_close(w) ==
    IF w.transport.closed THEN Ok(w)
    ELSE
    Then(Then(AiortcHandler_close([w EXCEPT !.transport.closed = TRUE]),
              LAMBDA u : CloseAllProcess(u,
                  <<"producers", "consumers", "dataProducers", "dataConsumers">>)),
         LAMBDA u : Ok([u EXCEPT !.transport.observerClose = @ + 1]))

\* AiortcHandler.run on_iceconnectionstatechange : the state the handler
\* reports for pc.iceConnectionState, None when it reports nothing
HandlerConnectionState(iceConnectionState) ==
    CASE iceConnectionState = "checking" -> "connecting"
      [] iceConnectionState \in {"connected", "completed"} -> "connected"
      [] iceConnectionState = "failed" -> "failed"
      [] iceConnectionState = "disconnected" -> "disconnected"
      [] iceConnectionState = "closed" -> "closed"
      [] OTHER -> None

\* Transport._handleHandler on_connectionstatechange
Transport_on_connectionstatechange(w, connectionState) ==
    [w EXCEPT !.transport.connectionState = connectionState]


(***************************************************************************)
(* One Transport, driven by the application and by the native engine       *)
(***************************************************************************)
IdInputs == {"a", "b"}                 \* ids the server gives to handles
TrackInputs ==
    {[kind |-> None, readyState |-> None],
     [kind |-> "audio", readyState |-> "live"],
     [kind |-> "video", readyState |-> "live"],
     [kind |-> "video", readyState |-> "ended"]}
ConsumeMids == {None, "0"}             \* rtpParameters.mid of a consume()
CodecInputs == {<<>>, <<100>>, <<101>>}
\* the events the application subscribed to; 'produce' and 'producedata'
\* are events of a sending Transport
ListenerSets(direction) ==
    IF direction = "send"
    THEN {{}, {"connect"}, {"connect", "produce", "producedata"}}
    ELSE {{}, {"connect"}}
SctpInputs == {TRUE}                   \* the server gave SCTP parameters
\* produceData() called with no argument
DefaultDataOptions == DataProducerOptions(Nothing, Nothing, Nothing)
IceInputs == {"new", "connected", "closed"}   \* pc.iceConnectionState reported

\* the step that raises in a call, None when none does
SendFails == {None, "connect", "produce", "producedata",
              "createOffer", "setLocalDescription", "setRemoteDescription"}
RecvFails == {None, "connect",
              "setRemoteDescription", "createAnswer", "setLocalDescription"}
ConsumeFails ==
    {<<fail, None>> : fail \in RecvFails} \cup
    {<<None, fail>> : fail \in RecvFails \ {None, "connect"}}

\* the cut-offs of the model
Bounded(w) ==
    /\ Len(w.sdp.mediaSections) <= MaxSections
    /\ Len(LocalOffer(w.pc)) <= MaxSections
    /\ w.sdp.sessionVersion <= MaxVersion
    /\ Len(w.handles) <= MaxHandles
    /\ w.handler.nextSendSctpStreamId <= MaxStreamId
    /\ w.handler.probatorReceives <= MaxEmitted
    /\ w.transport.connectEmitted <= MaxEmitted

SetWorld(w) ==
    /\ remoteSdp' = w.sdp
    /\ handler' = w.handler
    /\ pc' = w.pc
    /\ transport' = w.transport
    /\ handles' = w.handles
    /\ tasks' = w.tasks
    /\ UNCHANGED device

\* Device._createTransport : Transport(direction, ...) with a fresh handler
InitTransport ==
    \E direction \in Directions, sctp \in SctpInputs :
      \E listeners \in ListenerSets(direction) :
        /\ remoteSdp = RemoteSdp_init(TransportIceParameters, TRUE)
        /\ handler = AiortcHandler_init(direction)
        /\ pc = RTCPeerConnection_init
        /\ transport = Transport_init(direction, listeners, sctp,
                                      CanProduceByKind, ExtendedRtpCapabilities)
        /\ handles = <<>>
        /\ tasks = {}
        /\ device = Device_init
        /\ result = NoCall

Produce(track, id, fail) ==
    LET r == Transport_produce(World, track, id, fail)
    IN  Bounded(r.w) /\ SetWorld(r.w)

Consume(id, kind, mid, codecs, fail, probatorFail) ==
    LET r == Transport_consume(World, id, kind, mid, codecs, fail, probatorFail)
    IN  Bounded(r.w) /\ SetWorld(r.w)

ProduceData(id, options, fail) ==
    LET r == Transport_produceData(World, id, options, fail)
    IN  Bounded(r.w) /\ SetWorld(r.w)

ConsumeData(id, fail) ==
    LET r == Transport_consumeData(World, id, fail)
    IN  Bounded(r.w) /\ SetWorld(r.w)

Close ==
    SetWorld(Transport_close(World).w)

\* the application closes a handle
HandleClose(h, fail) ==
    /\ h \in 1 .. Len(handles)
    /\ LET r == Handle_close(World, h, fail)
       IN  Bounded(r.w) /\ SetWorld(r.w)

\* the native engine reports that the data channel of a handle closed
DataChannelClose(h) ==
    /\ h \in 1 .. Len(handles)
    /\ handles[h].cls \in {"DataProducer", "DataConsumer"}
    /\ SetWorld(Handle_onDataChannelClose(World, h).w)

\* the event loop runs a scheduled '@close' listener
RunTask(task) ==
    /\ task \in tasks
    /\ SetWorld(RunOnClose(World, task))

\* the native engine reports a connectivity change
IceConnectionStateChange(iceConnectionState) ==
    /\ HandlerConnectionState(iceConnectionState) # None
    /\ SetWorld(Transport_on_connectionstatechange(
                    World, HandlerConnectionState(iceConnectionState)))

NextTransport ==
    \/ \E track \in TrackInputs, id \in IdInputs, fail \in SendFails :
           Produce(track, id, fail) /\ UNCHANGED result
    \/ \E id \in IdInputs, kind \in MediaKinds, mid \in ConsumeMids,
          codecs \in CodecInputs, fails \in ConsumeFails :
           Consume(id, kind, mid, codecs, fails[1], fails[2]) /\ UNCHANGED result
    \/ \E id \in IdInputs, fail \in SendFails :
           ProduceData(id, DefaultDataOptions, fail) /\ UNCHANGED result
    \/ \E id \in IdInputs, fail \in RecvFails :
           ConsumeData(id, fail) /\ UNCHANGED result
    \/ Close /\ UNCHANGED result
    \/ \E h \in 1 .. MaxHandles, fail \in RecvFails :
           HandleClose(h, fail) /\ UNCHANGED result
    \/ \E h \in 1 .. MaxHandles : DataChannelClose(h) /\ UNCHANGED result
    \/ \E task \in tasks : RunTask(task) /\ UNCHANGED result
    \/ \E iceConnectionState \in IceInputs :
           IceConnectionStateChange(iceConnectionState) /\ UNCHANGED result

SpecTransport == InitTransport /\ [][NextTransport]_vars


(***************************************************************************)
(* Claims about one Transport                                              *)
(***************************************************************************)
ApplicationSections(s) ==
    {i \in Indices(s) : SectionAt(s, i).type = "application"}

\* C5: in every reachable state of one Transport's session there is at most
\* one section of type application, whether the earlier produceData /
\* consumeData calls succeeded or failed in the native engine.
C5_AtMostOneApplicationSection ==
    Cardinality(ApplicationSections(remoteSdp)) <= 1

SameRegistries(t, u) ==
    /\ t.producers = u.producers
    /\ t.consumers = u.consumers

\* C6: whenever produce() or consume() fails, at whichever step, the
\* producer and consumer registries are the same as before the call.
C6_FailedCallLeavesRegistries ==
    [][/\ \A track \in TrackInputs, id \in IdInputs, fail \in SendFails :
            (/\ Produce(track, id, fail)
             /\ Failed(Transport_produce(World, track, id, fail)))
                => SameRegistries(transport, transport')
       /\ \A id \in IdInputs, kind \in MediaKinds, mid \in ConsumeMids,
             codecs \in CodecInputs, fails \in ConsumeFails :
            (/\ Consume(id, kind, mid, codecs, fails[1], fails[2])
             /\ Failed(Transport_consume(World, id, kind, mid, codecs,
                                         fails[1], fails[2])))
                => SameRegistries(transport, transport')]_vars

\* a section without its setup attribute, which updateDtlsRole rewrites in
\* every section
SansSetup(ms) == [ms EXCEPT !.setup = None]

\* the indices at which a call added or replaced a section
TouchedSections(s, t) ==
    {i \in Indices(t) :
        \/ i \notin Indices(s)
        \/ SansSetup(SectionAt(t, i)) # SansSetup(SectionAt(s, i))}

\* an open handle owns the section: a Producer or Consumer by its localId,
\* a DataProducer or DataConsumer the application section
Owned(hs, ms) ==
    \E h \in 1 .. Len(hs) :
        /\ ~hs[h].closed
        /\ IF ms.type = "application"
           THEN hs[h].cls \in {"DataProducer", "DataConsumer"}
           ELSE hs[h].localId = ms.mid

\* every section the call touched is closed, or an open handle owns it
NoOpenOrphan ==
    \A i \in TouchedSections(remoteSdp, remoteSdp') :
        \/ MediaSection_closed(SectionAt(remoteSdp', i))
        \/ Owned(handles', SectionAt(remoteSdp', i))

\* C7: if a native-engine step fails after the handler's send(), receive(),
\* sendDataChannel() or receiveDataChannel() added or replaced a section,
\* the operation ends with that section closed or rolled back, never open
\* and owned by no handle.
C7_NativeFailureLeavesNoOpenOrphan ==
    [][/\ \A track \in TrackInputs, id \in IdInputs, fail \in SendFails :
            (/\ Produce(track, id, fail)
             /\ Transport_produce(World, track, id, fail).err = NativeError)
                => NoOpenOrphan
       /\ \A id \in IdInputs, kind \in MediaKinds, mid \in ConsumeMids,
             codecs \in CodecInputs, fails \in ConsumeFails :
            (/\ Consume(id, kind, mid, codecs, fails[1], fails[2])
             /\ Transport_consume(World, id, kind, mid, codecs,
                                  fails[1], fails[2]).err = NativeError)
                => NoOpenOrphan
       /\ \A id \in IdInputs, fail \in SendFails :
            (/\ ProduceData(id, DefaultDataOptions, fail)
             /\ Transport_produceData(World, id, DefaultDataOptions,
                                      fail).err = NativeError)
                => NoOpenOrphan
       /\ \A id \in IdInputs, fail \in RecvFails :
            (/\ ConsumeData(id, fail)
             /\ Transport_consumeData(World, id, fail).err = NativeError)
                => NoOpenOrphan]_vars

\* C8: once close() has been called or the connection state has become
\* 'closed', no later connectivity notification changes connectionState to
\* a non-closed value.
C8_ClosedIsTerminal ==
    [][(transport.closed \/ transport.connectionState = "closed")
          => \/ transport'.connectionState = transport.connectionState
             \/ transport'.connectionState = "closed"]_vars

\* the handles a registry of the Transport holds
Registered(t) ==
    {t.producers[i].h : i \in 1 .. Len(t.producers)} \cup
    {t.consumers[i].h : i \in 1 .. Len(t.consumers)} \cup
    {t.dataProducers[i].h : i \in 1 .. Len(t.dataProducers)} \cup
    {t.dataConsumers[i].h : i \in 1 .. Len(t.dataConsumers)}

\* handle h has gone from open to closed and has emitted its one observer
\* 'close' notification
ClosedAndNotified(h) ==
    /\ ~handles[h].closed
    /\ handles'[h].closed
    /\ handles'[h].observerClose = handles[h].observerClose + 1
    /\ handles'[h].observerClose = 1

\* C9: for every handle, closed never goes back to false and nothing changes
\* a closed handle; with no failure in the native engine, the first of
\* close(), transportClosed() (from Transport.close) and the data-channel
\* close notification completes without error and emits the observer 'close'
\* notification exactly once.
C9_CloseOnceAndNotifyOnce ==
    [][/\ Len(handles') >= Len(handles)
       /\ \A h \in 1 .. Len(handles) :
             handles[h].closed => handles'[h] = handles[h]
       /\ \A h \in 1 .. Len(handles) :
             (HandleClose(h, None) /\ ~handles[h].closed)
                 => /\ ~Failed(Handle_close(World, h, None))
                    /\ ClosedAndNotified(h)
       /\ \A h \in 1 .. Len(handles) :
             (DataChannelClose(h) /\ ~handles[h].closed) => ClosedAndNotified(h)
       /\ (Close /\ ~transport.closed)
             => /\ ~Failed(Transport_close(World))
                /\ \A h \in Registered(transport) :
                      ~handles[h].closed => ClosedAndNotified(h)]_vars

(***************************************************************************)
(* device.py                                                               *)
(***************************************************************************)
ValidationError == "ValidationError"    \* raised by a pydantic model

\* AiortcHandler.getNativeSctpCapabilities
NativeSctpCapabilities == [numStreams |-> SctpNumStreams]

\* AiortcHandler.name
HandlerName == "aiortc"

\* the outcome of a call on the Device: the error raised (or NoError), the
\* Device afterwards, the value returned
DeviceOk(d, v) == [err |-> NoError, d |-> d, val |-> Some(v)]
DeviceFail(e, d) == [err |-> e, d |-> d, val |-> Nothing]

\* Device.handlerName
Device_handlerName(d) ==
    IF ~d.loaded THEN DeviceFail(InvalidStateError, d)
    ELSE DeviceOk(d, d.handlerName)

\* Device.rtpCapabilities
Device_rtpCapabilities(d) ==
    IF ~d.loaded THEN DeviceFail(InvalidStateError, d)
    ELSE DeviceOk(d, d.recvRtpCapabilities)

\* Device.sctpCapabilities
Device_sctpCapabilities(d) ==
    IF ~d.loaded THEN DeviceFail(InvalidStateError, d)
    ELSE DeviceOk(d, d.sctpCapabilities)

\* Device.load ; routerRtpCapabilities.valid tells whether the argument
\* passes RtpCapabilities' validation, fail names the step of
\* getNativeRtpCapabilities the native engine fails in.  handler.name and
\* handler.close() of the temporary handler, which has no peer connection,
\* do not raise.
Device_load(d, routerRtpCapabilities, fail) ==
    IF ~routerRtpCapabilities.valid THEN DeviceFail(ValidationError, d)
    ELSE IF d.loaded THEN [err |-> NoError, d |-> d, val |-> Nothing]
    ELSE IF fail # None THEN DeviceFail(NativeError, d)
    ELSE LET extended == getExtendedRtpCapabilities(NativeRtpCapabilities,
                                                    routerRtpCapabilities.codecs)
         IN  [err |-> NoError,
              val |-> Nothing,
              d |-> [loaded |-> TRUE,
                     handlerName |-> HandlerName,
                     extendedRtpCapabilities |-> Some(extended),
                     recvRtpCapabilities |-> Some(getRecvRtpCapabilities(extended)),
                     canProduceByKind |->
                         [kind \in MediaKinds |-> canSend(kind, extended)],
                     sctpCapabilities |-> Some(NativeSctpCapabilities)]]

\* Device.canProduce
Device_canProduce(d, kind) ==
    IF ~d.loaded THEN DeviceFail(InvalidStateError, d)
    ELSE IF kind \notin {"video", "audio"} THEN DeviceFail(TypeError, d)
    ELSE DeviceOk(d, d.canProduceByKind[kind])

\* the forms the transport parameters (iceParameters, iceCandidates,
\* dtlsParameters, sctpParameters) of a call can take
ParameterForms == {"models", "dicts", "malformed dicts"}

\* Device._createTransport without its loaded check
Device_createTransport_unguarded(d, direction, form, sctpParameters) ==
    IF form = "malformed dicts" THEN DeviceFail(ValidationError, d)
    ELSE DeviceOk(d, Transport_init(direction, {}, sctpParameters,
                                    d.canProduceByKind,
                                    d.extendedRtpCapabilities))

\* Device._createTransport ; InternalTransportOptions validates the
\* parameters it is given
Device_createTransport(d, direction, form, sctpParameters) ==
    IF ~d.loaded THEN DeviceFail(InvalidStateError, d)
    ELSE IF form = "malformed dicts" THEN DeviceFail(ValidationError, d)
    ELSE DeviceOk(d, Transport_init(direction, {}, sctpParameters,
                                    d.canProduceByKind,
                                    d.extendedRtpCapabilities))

\* Device.createSendTransport
Device_createSendTransport(d, form, sctpParameters) ==
    Device_createTransport(d, "send", form, sctpParameters)

\* Device.createRecvTransport : parameters given as dicts are converted to
\* their models first
Device_createRecvTransport(d, form, sctpParameters) ==
    IF form = "malformed dicts" THEN DeviceFail(ValidationError, d)
    ELSE Device_createTransport(d, "recv", "models", sctpParameters)

(***************************************************************************)
(* One Device and the calls made on it                                     *)
(***************************************************************************)
RECURSIVE SeqsUpTo(_, _)
SeqsUpTo(S, n) ==
    IF n = 0 THEN {<<>>}
    ELSE LET shorter == SeqsUpTo(S, n - 1)
         IN  shorter \cup {Append(q, x) : q \in shorter, x \in S}

RouterRtpCapabilitiesInputs ==
    {[valid |-> FALSE, codecs |-> <<>>]}
        \cup {[valid |-> TRUE, codecs |-> codecs] :
                 codecs \in SeqsUpTo(RouterCodecs, MaxRouterCodecs)}

LoadFails == {None, "createOffer"}
CanProduceKinds == {"audio", "video", "application"}

\* the Device after the call, and what the caller saw
SetDevice(op, arg, r) ==
    /\ device' = r.d
    /\ result' = [op |-> op, arg |-> arg, err |-> r.err, val |-> r.val]
    /\ UNCHANGED <<remoteSdp, handler, pc, transport, handles, tasks>>

InitDevice ==
    /\ device = Device_init
    /\ result = NoCall
    /\ remoteSdp = RemoteSdp_init(TransportIceParameters, TRUE)
    /\ handler = AiortcHandler_init("send")
    /\ pc = RTCPeerConnection_init
    /\ transport = Transport_init("send", {}, TRUE, CanProduceByKind,
                                  ExtendedRtpCapabilities)
    /\ handles = <<>>
    /\ tasks = {}

Load ==
    \E routerRtpCapabilities \in RouterRtpCapabilitiesInputs, fail \in LoadFails :
        SetDevice("load",
                  IF routerRtpCapabilities.valid THEN "models" ELSE "malformed dicts",
                  Device_load(device, routerRtpCapabilities, fail))

GetHandlerName == SetDevice("handlerName", None, Device_handlerName(device))

GetRtpCapabilities ==
    SetDevice("rtpCapabilities", None, Device_rtpCapabilities(device))

GetSctpCapabilities ==
    SetDevice("sctpCapabilities", None, Device_sctpCapabilities(device))

CanProduce ==
    \E kind \in CanProduceKinds :
        SetDevice("canProduce", kind, Device_canProduce(device, kind))

CreateSendTransport ==
    \E form \in ParameterForms, sctpParameters \in BOOLEAN :
        SetDevice("createSendTransport", form,
                  Device_createSendTransport(device, form, sctpParameters))

CreateRecvTransport ==
    \E form \in ParameterForms, sctpParameters \in BOOLEAN :
        SetDevice("createRecvTransport", form,
                  Device_createRecvTransport(device, form, sctpParameters))

NextDevice ==
    \/ Load
    \/ GetHandlerName
    \/ GetRtpCapabilities
    \/ GetSctpCapabilities
    \/ CanProduce
    \/ CreateSendTransport
    \/ CreateRecvTransport

SpecDevice == InitDevice /\ [][NextDevice]_vars

(***************************************************************************)
(* Claims about the Device                                                 *)
(***************************************************************************)
\* the calls that need a loaded Device
GuardedCalls ==
    {"handlerName", "rtpCapabilities", "sctpCapabilities", "canProduce",
     "createSendTransport", "createRecvTransport"}

\* loaded starts false, goes from false to true only in a load() that
\* returns normally, and never goes back
LoadedLifeCycle ==
    /\ ~device.loaded
    /\ [][device'.loaded # device.loaded
            => /\ ~device.loaded
               /\ result'.op = "load"
               /\ result'.err = NoError]_vars

\* a call on a loaded Device, load() included, leaves everything the Device
\* stores as it was
LoadedDeviceIsFrozen == [][device.loaded => device' = device]_vars

CallSctpInputs == BOOLEAN              \* the server gave SCTP parameters or not
CallFails == {None, "connect"}         \* the subscriber that raises in a call
OptionalInts == {Nothing, Some(0), Some(1)}
OptionalBools == {Nothing, Some(TRUE), Some(FALSE)}
DataOptionInputs ==
    {DataProducerOptions(ordered, maxPacketLifeTime, maxRetransmits) :
         ordered \in OptionalBools, maxPacketLifeTime \in OptionalInts,
         maxRetransmits \in OptionalInts}
TransportCalls == {"produce", "consume", "produceData", "consumeData"}
GuardedTransportCalls ==
    TransportCalls \cup {"getStats", "restartIce", "updateIceServers"}

Outcome(op, r) ==
    result' = [op |-> op, arg |-> None, err |-> r.err, val |-> Nothing]

InitCalls ==
    \E direction \in Directions, sctp \in CallSctpInputs :
      \E listeners \in ListenerSets(direction) :
        /\ remoteSdp = RemoteSdp_init(TransportIceParameters, TRUE)
        /\ handler = AiortcHandler_init(direction)
        /\ pc = RTCPeerConnection_init
        /\ transport = Transport_init(direction, listeners, sctp,
                                      CanProduceByKind, ExtendedRtpCapabilities)
        /\ handles = <<>>
        /\ tasks = {}
        /\ device = Device_init
        /\ result = NoCall

GetStats ==
    LET r == Transport_getStats(World)
    IN  SetWorld(r.w) /\ Outcome("getStats", r)

\* the ICE parameters the application passes to restartIce: here the router
\* answers the restart with the parameters it gave before
RestartIceInputs == {TransportIceParameters}

RestartIce(iceParameters, fail) ==
    LET r == Transport_restartIce(World, iceParameters, fail)
    IN  Bounded(r.w) /\ SetWorld(r.w) /\ Outcome("restartIce", r)

UpdateIceServers ==
    LET r == Transport_updateIceServers(World)
    IN  SetWorld(r.w) /\ Outcome("updateIceServers", r)

NextCalls ==
    \/ \E track \in TrackInputs, id \in IdInputs, fail \in CallFails :
           /\ Produce(track, id, fail)
           /\ Outcome("produce",
                      Transport_produce(World, track, id, fail))
    \/ \E id \in IdInputs, kind \in MediaKinds, mid \in ConsumeMids,
          codecs \in CodecInputs, fail \in CallFails :
           /\ Consume(id, kind, mid, codecs, fail, None)
           /\ Outcome("consume",
                      Transport_consume(World, id, kind, mid, codecs, fail, None))
    \/ \E id \in IdInputs, fail \in CallFails :
           /\ ProduceData(id, DefaultDataOptions, fail)
           /\ Outcome("produceData",
                      Transport_produceData(World, id, DefaultDataOptions, fail))
    \/ \E id \in IdInputs, fail \in CallFails :
           /\ ConsumeData(id, fail)
           /\ Outcome("consumeData",
                      Transport_consumeData(World, id, fail))
    \/ GetStats
    \/ \E iceParameters \in RestartIceInputs, fail \in {None} :
           RestartIce(iceParameters, fail)
    \/ UpdateIceServers
    \/ Close /\ Outcome("close", Transport_close(World))
    \/ \E iceConnectionState \in IceInputs :
           /\ IceConnectionStateChange(iceConnectionState)
           /\ Outcome("connectionstatechange", Ok(World))

SpecCalls == InitCalls /\ [][NextCalls]_vars


\* the call raised and left every object as it was, having taken no step
FailsUntouched(r) == Failed(r) /\ r.w = World

\* C11: produce, consume, produceData or consumeData called on a Transport
\* whose connection state is 'new' and that has no 'connect' subscriber
\* fails before the handler is invoked: the session builder, the registries
\* and every other object are unchanged.
C11_NoConnectSubscriberFailsBeforeHandler ==
    (transport.connectionState = "new" /\ "connect" \notin transport.listeners)
    => /\ \A track \in TrackInputs, id \in IdInputs, fail \in SendFails :
            FailsUntouched(Transport_produce(World, track, id, fail))
       /\ \A id \in IdInputs, kind \in MediaKinds, mid \in ConsumeMids,
             codecs \in CodecInputs, fails \in ConsumeFails :
            FailsUntouched(Transport_consume(World, id, kind, mid, codecs,
                                             fails[1], fails[2]))
       /\ \A id \in IdInputs, options \in DataOptionInputs, fail \in SendFails :
            FailsUntouched(Transport_produceData(World, id, options, fail))
       /\ \A id \in IdInputs, fail \in RecvFails :
            FailsUntouched(Transport_consumeData(World, id, fail))

\* a receiving Transport in state 'new' without a 'connect' subscriber on
\* which consumeData() has just been refused for that reason
C11_Witness ==
    /\ transport.connectionState = "new"
    /\ "connect" \notin transport.listeners
    /\ transport.direction = "recv"
    /\ ~transport.closed
    /\ result.op = "consumeData"
    /\ result.err = TypeError


(***************************************************************************)
(* One Transport on which every call made is a consume() that succeeds     *)
(***************************************************************************)
SuccessfulConsume(id, kind, mid, codecs) ==
    /\ ~Failed(Transport_consume(World, id, kind, mid, codecs, None, None))
    /\ Consume(id, kind, mid, codecs, None, None)
    /\ Outcome("consume",
               Transport_consume(World, id, kind, mid, codecs, None, None))

NextConsumes ==
    \/ \E id \in IdInputs, kind \in MediaKinds, mid \in ConsumeMids,
          codecs \in CodecInputs :
           SuccessfulConsume(id, kind, mid, codecs)
    \/ \E iceConnectionState \in IceInputs :
           /\ IceConnectionStateChange(iceConnectionState)
           /\ Outcome("connectionstatechange", Ok(World))

SpecConsumes == InitCalls /\ [][NextConsumes]_vars

\* the Consumers of kind video made so far
VideoConsumers ==
    {h \in 1 .. Len(handles) :
         handles[h].cls = "Consumer" /\ handles[h].kind = "video"}

\* C12: over any sequence of successful consume() calls on one Transport the
\* handler has received the probator stream exactly once as soon as one
\* consume of kind video has been made, and not at all before: audio
\* consumes and later video consumes do not receive it.
C12_ProbatorReceivedOnce ==
    handler.probatorReceives = IF VideoConsumers = {} THEN 0 ELSE 1

\* two video Consumers made, the probator received once
C12_Witness ==
    /\ Cardinality(VideoConsumers) = 2
    /\ handler.probatorReceives = 1
    /\ result.op = "consume"
    /\ result.err = NoError


UnsupportedProduce(track) ==
    \/ transport.direction = "recv"
    \/ track.kind # None /\ ~transport.canProduceByKind[track.kind]
UnsupportedConsume(codecs) ==
    \/ transport.direction = "send"
    \/ ~canReceive(codecs, transport.extendedRtpCapabilities)
UnsupportedProduceData == ~transport.maxSctpMessageSize

\* C14 as stated: each unsupported call fails with UnsupportedError and
\* leaves every object unchanged.
C14_UnsupportedCallsRaiseUnsupportedError ==
    /\ \A track \in TrackInputs, id \in IdInputs, fail \in SendFails :
         UnsupportedProduce(track) =>
             LET r == Transport_produce(World, track, id, fail)
             IN  r.err = UnsupportedError /\ r.w = World
    /\ \A id \in IdInputs, kind \in MediaKinds, mid \in ConsumeMids,
          codecs \in CodecInputs, fails \in ConsumeFails :
         UnsupportedConsume(codecs) =>
             LET r == Transport_consume(World, id, kind, mid, codecs,
                                        fails[1], fails[2])
             IN  r.err = UnsupportedError /\ r.w = World
    /\ \A id \in IdInputs, options \in DataOptionInputs, fail \in SendFails :
         UnsupportedProduceData =>
             LET r == Transport_produceData(World, id, options, fail)
             IN  r.err = UnsupportedError /\ r.w = World

\* C14: each unsupported call fails before the handler is invoked and
\* leaves every object unchanged; the error is UnsupportedError, except
\* that produce() without a track raises TypeError, consume() on a closed
\* Transport raises InvalidStateError, and consume() of parameters that
\* cannot be received, on a receiving Transport in state 'new' without a
\* 'connect' subscriber, raises TypeError.
C14_UnsupportedCallsFailInCheckOrder ==
    /\ \A track \in TrackInputs, id \in IdInputs, fail \in SendFails :
         UnsupportedProduce(track) =>
             LET r == Transport_produce(World, track, id, fail)
             IN  /\ FailsUntouched(r)
                 /\ r.err = IF track.kind = None THEN TypeError
                            ELSE UnsupportedError
    /\ \A id \in IdInputs, kind \in MediaKinds, mid \in ConsumeMids,
          codecs \in CodecInputs, fails \in ConsumeFails :
         UnsupportedConsume(codecs) =>
             LET r == Transport_consume(World, id, kind, mid, codecs,
                                        fails[1], fails[2])
             IN  /\ FailsUntouched(r)
                 /\ r.err = IF transport.closed THEN InvalidStateError
                            ELSE IF transport.direction = "send"
                            THEN UnsupportedError
                            ELSE IF "connect" \notin transport.listeners
                                    /\ transport.connectionState = "new"
                            THEN TypeError
                            ELSE UnsupportedError
    /\ \A id \in IdInputs, options \in DataOptionInputs, fail \in SendFails :
         UnsupportedProduceData =>
             LET r == Transport_produceData(World, id, options, fail)
             IN  FailsUntouched(r) /\ r.err = UnsupportedError

\* produceData() refused on a sending Transport, ready to send, whose remote
\* gave no SCTP parameters
C14_Witness ==
    /\ transport.direction = "send"
    /\ ~transport.maxSctpMessageSize
    /\ "producedata" \in transport.listeners
    /\ handler.transportReady
    /\ result.op = "produceData"
    /\ result.err = UnsupportedError


\* C15: after Transport.close(), every later produce, consume, produceData,
\* consumeData, getStats, restartIce and updateIceServers call fails with
\* InvalidStateError without invoking the handler.
C15_ClosedTransportRefusesEveryCall ==
    transport.closed =>
      /\ \A track \in TrackInputs, id \in IdInputs, fail \in SendFails :
           LET r == Transport_produce(World, track, id, fail)
           IN  r.err = InvalidStateError /\ r.w = World
      /\ \A id \in IdInputs, kind \in MediaKinds, mid \in ConsumeMids,
            codecs \in CodecInputs, fails \in ConsumeFails :
           LET r == Transport_consume(World, id, kind, mid, codecs,
                                      fails[1], fails[2])
           IN  r.err = InvalidStateError /\ r.w = World
      /\ \A id \in IdInputs, options \in DataOptionInputs, fail \in SendFails :
           LET r == Transport_produceData(World, id, options, fail)
           IN  r.err = InvalidStateError /\ r.w = World
      /\ \A id \in IdInputs, fail \in RecvFails :
           LET r == Transport_consumeData(World, id, fail)
           IN  r.err = InvalidStateError /\ r.w = World
      /\ LET r == Transport_getStats(World)
         IN  r.err = InvalidStateError /\ r.w = World
      /\ \A fail \in SendFails \cup RecvFails :
           LET r == Transport_restartIce(World, TransportIceParameters, fail)
           IN  r.err = InvalidStateError /\ r.w = World
      /\ LET r == Transport_updateIceServers(World)
         IN  r.err = InvalidStateError /\ r.w = World


(***************************************************************************)
(* One Transport on which the application calls produceData() with every   *)
(* combination of ordered, maxPacketLifeTime and maxRetransmits            *)
(***************************************************************************)
NextProduceData ==
    \/ \E id \in IdInputs, options \in DataOptionInputs, fail \in CallFails :
           /\ ProduceData(id, options, fail)
           /\ Outcome("produceData",
                      Transport_produceData(World, id, options, fail))
    \/ \E iceConnectionState \in IceInputs :
           /\ IceConnectionStateChange(iceConnectionState)
           /\ Outcome("connectionstatechange", Ok(World))

SpecProduceData == InitCalls /\ [][NextProduceData]_vars

\* the sctpStreamParameters of the DataProducers made so far
DataProducerParameters ==
    {handles[h].sctpStreamParameters[1] :
         h \in {i \in 1 .. Len(handles) : handles[i].cls = "DataProducer"}}

\* C16: the sctpStreamParameters held by a DataProducer never have
\* ordered = true together with a set maxPacketLifeTime or maxRetransmits,
\* for every value of those fields including 0.
C16_OrderedExcludesLimits ==
    \A p \in DataProducerParameters :
        ~(/\ p.ordered = Some(TRUE)
          /\ (p.maxPacketLifeTime # Nothing \/ p.maxRetransmits # Nothing))


\* the steps of a call other than the 'connect' notification of a first
\* negotiation
StepsOf(r) == SelectSeq(r.w.trace, LAMBDA step : step # "connect")

\* handle h is in the registry of its class
InRegistry(w, h) ==
    LET reg == w.transport[RegistryOf(w.handles[h].cls)]
    IN  \E i \in 1 .. Len(reg) :
            reg[i].h = h /\ reg[i].id = w.handles[h].id

\* the call announced nothing if it failed, and what it announced is in the
\* registry when the call returns
AnnouncesRegistered(r) ==
    LET announced == r.w.transport.notified \ transport.notified
    IN  /\ Failed(r) => announced = {}
        /\ \A h \in announced : h \in 1 .. Len(r.w.handles) /\ InRegistry(r.w, h)

\* C17: a successful produce() (produceData()) takes its steps in this
\* order: handler send, the 'produce' ('producedata') subscriber,
\* registration of the handle under the id, observer 'newproducer'
\* ('newdataproducer'); all precondition checks come before the handler is
\* called; and no call announces a handle that is not in the registry.
C17_ProduceStepsInOrder ==
    /\ \A track \in TrackInputs, id \in IdInputs, fail \in SendFails :
         LET r == Transport_produce(World, track, id, fail)
         IN  /\ AnnouncesRegistered(r)
             /\ ~Failed(r) =>
                  /\ StepsOf(r) =
                       <<"handler.send", "produce", "register", "newproducer">>
                  /\ r.w.handles[Len(r.w.handles)].id = id
    /\ \A id \in IdInputs, options \in DataOptionInputs, fail \in SendFails :
         LET r == Transport_produceData(World, id, options, fail)
         IN  /\ AnnouncesRegistered(r)
             /\ ~Failed(r) =>
                  /\ StepsOf(r) = <<"handler.sendDataChannel", "producedata",
                                    "register", "newdataproducer">>
                  /\ r.w.handles[Len(r.w.handles)].id = id
    /\ \A id \in IdInputs, kind \in MediaKinds, mid \in ConsumeMids,
          codecs \in CodecInputs, fails \in ConsumeFails :
         AnnouncesRegistered(Transport_consume(World, id, kind, mid, codecs,
                                               fails[1], fails[2]))
    /\ \A id \in IdInputs, fail \in RecvFails :
         AnnouncesRegistered(Transport_consumeData(World, id, fail))

\* a produce() that succeeded: its Producer is the last handle, registered
\* and announced
C17_Witness ==
    /\ result.op = "produce"
    /\ result.err = NoError
    /\ handles # <<>>
    /\ handles[Len(handles)].cls = "Producer"
    /\ Len(handles) \in transport.notified
    /\ \E i \in 1 .. Len(transport.producers) :
           transport.producers[i].h = Len(handles)


(***************************************************************************)
(* The functions of ortc.py applied to capabilities and codec lists:       *)
(* result.arg is what the application holds, result.op the function        *)
(* applied last, result.err and result.val what it gave                    *)
(***************************************************************************)
MaxCodecs == 2                \* codecs in a capability set
MaxSendingCodecs == 3         \* codecs in the list given to reduceCodecs

\* what the native engine may offer, and what a router may list
LocalCodecInputs ==
    {Codec("audio", "audio/opus", 48000, 96),
     Codec("video", "video/VP8", 90000, 97),
     Codec("video", "video/vp8", 90000, 98),
     RtxCodec("video", 90000, 99, 97)}
RemoteCodecInputs ==
    {Codec("audio", "audio/opus", 48000, 100),
     Codec("video", "video/vp8", 90000, 101),
     Codec("video", "video/h264", 90000, 102),
     RtxCodec("video", 90000, 103, 101)}

\* the codecs of sending RTP parameters, and the codec the application asks
\* produce() to use
SendingCodecInputs ==
    {CodecParameters("video/vp8", 90000, 97),
     CodecParameters("video/vp8", 90000, 98),
     CodecParameters("video/rtx", 90000, 99)}
CapCodecInputs ==
    {Nothing,
     Some(Codec("video", "video/VP8", 90000, 101)),
     Some(Codec("video", "video/h264", 90000, 102))}

OrtcResult(op, arg, err, val) ==
    /\ result' = [op |-> op, arg |-> arg, err |-> err, val |-> val]
    /\ UNCHANGED <<remoteSdp, handler, pc, transport, handles, tasks, device>>

InitOrtc ==
    /\ remoteSdp = RemoteSdp_init(TransportIceParameters, TRUE)
    /\ handler = AiortcHandler_init("send")
    /\ pc = RTCPeerConnection_init
    /\ transport = Transport_init("send", {}, FALSE, CanProduceByKind,
                                  ExtendedRtpCapabilities)
    /\ handles = <<>>
    /\ tasks = {}
    /\ device = Device_init
    /\ \/ \E localCaps \in SeqsUpTo(LocalCodecInputs, MaxCodecs),
            remoteCaps \in SeqsUpTo(RemoteCodecInputs, MaxCodecs) :
             result = [op |-> "capabilities",
                       arg |-> [localCaps |-> localCaps, remoteCaps |-> remoteCaps],
                       err |-> NoError, val |-> Nothing]
       \/ \E codecs \in SeqsUpTo(SendingCodecInputs, MaxSendingCodecs),
            capCodec \in CapCodecInputs :
             result = [op |-> "codecs",
                       arg |-> [codecs |-> codecs, capCodec |-> capCodec],
                       err |-> NoError, val |-> Nothing]

CallGetExtendedRtpCapabilities ==
    /\ result.op = "capabilities"
    /\ OrtcResult("getExtendedRtpCapabilities", result.arg, NoError,
                  getExtendedRtpCapabilities(result.arg.localCaps,
                                             result.arg.remoteCaps))

CallGetRecvRtpCapabilities ==
    /\ result.op = "getExtendedRtpCapabilities"
    /\ OrtcResult("getRecvRtpCapabilities", result.arg, NoError,
                  getRecvRtpCapabilities(result.val))

CallReduceCodecs ==
    /\ result.op = "codecs"
    /\ LET r == reduceCodecs(result.arg.codecs, result.arg.capCodec)
       IN  OrtcResult("reduceCodecs", result.arg, r.err, r.val)

NextOrtc ==
    \/ CallGetExtendedRtpCapabilities
    \/ CallGetRecvRtpCapabilities
    \/ CallReduceCodecs

SpecOrtc == InitOrtc /\ [][NextOrtc]_vars

\* the payload types a capability set lists
PayloadTypes(caps) == {caps[i].preferredPayloadType : i \in 1 .. Len(caps)}

\* C18: every codec entry of getRecvRtpCapabilities(
\* getExtendedRtpCapabilities(A, B)) carries a preferred payload type, and
\* that payload type is the payload type of some codec in B.
C18_RecvPayloadTypesAreRemote ==
    result.op = "getRecvRtpCapabilities" =>
        \A i \in 1 .. Len(result.val) :
            /\ result.val[i].preferredPayloadType # Nothing
            /\ result.val[i].preferredPayloadType[1] \in
                   PayloadTypes(result.arg.remoteCaps)

\* the places of the codecs that match capCodec non-strictly
MatchingPlaces(codecs, capCodec) ==
    {i \in 1 .. Len(codecs) : matchCodecs(codecs[i], capCodec, FALSE, FALSE).val}

\* codecs[k], followed by the codec right after it if that one is RTX
WithRtxPair(codecs, k) ==
    <<codecs[k]>> \o
    IF k + 1 <= Len(codecs) /\ isRtxCodec(codecs[k + 1])
    THEN <<codecs[k + 1]>> ELSE <<>>

\* C19: reduceCodecs on a non-empty codec list returns the first codec
\* (with a capability filter: the first codec that matches the filter)
\* followed by the codec right after it only if that one is RTX, so the
\* result has length 1 or 2; with a filter and no matching codec it fails.
C19_ReduceCodecsKeepsOneCodecAndItsRtx ==
    (result.op = "reduceCodecs" /\ result.arg.codecs # <<>>) =>
        LET codecs == result.arg.codecs
            capCodec == result.arg.capCodec
        IN  IF capCodec = Nothing
            THEN result.err = NoError /\ result.val = WithRtxPair(codecs, 1)
            ELSE IF MatchingPlaces(codecs, capCodec[1]) = {}
            THEN result.err = TypeError
            ELSE /\ result.err = NoError
                 /\ result.val =
                        WithRtxPair(codecs,
                                    Lowest(MatchingPlaces(codecs, capCodec[1])))
                 /\ Len(result.val) \in {1, 2}

\* the remote codecs that yield an extended codec: not RTX, and matched by
\* a local codec
MatchedRemoteCodecs(localCaps, remoteCaps) ==
    SelectSeq(remoteCaps, LAMBDA c :
        ~isRtxCodec(c) /\ MatchingPlaces(localCaps, c) # {})

HeaderExtension(kind, uri, preferredId, direction) ==
    [kind |-> kind, uri |-> uri, preferredId |-> preferredId,
     preferredEncrypt |-> FALSE, direction |-> direction]

\* ortc.matchHeaderExtensions
matchHeaderExtensions(aExt, bExt) ==
    /\ aExt.kind = bExt.kind
    /\ aExt.uri = bExt.uri

\* ortc.getExtendedRtpCapabilities, the direction of an extended header
\* extension: the remote direction seen from the local side; a direction
\* that is none of the four leaves the 'sendrecv' the object was built with
MirroredDirection(direction) ==
    CASE direction = "sendrecv" -> "sendrecv"
      [] direction = "recvonly" -> "sendonly"
      [] direction = "sendonly" -> "recvonly"
      [] direction = "inactive" -> "inactive"
      [] OTHER -> "sendrecv"

\* ortc.getExtendedRtpCapabilities, its third loop: one extended header
\* extension per remote extension with a matching local one, in remote
\* order, built from the first match
RECURSIVE MatchHeaderExtensions(_, _)
MatchHeaderExtensions(localExts, remoteExts) ==
    IF remoteExts = <<>> THEN <<>>
    ELSE LET remoteExt == Head(remoteExts)
             matchingLocalExts ==
                 SelectSeq(localExts,
                           LAMBDA e : matchHeaderExtensions(e, remoteExt))
             rest == MatchHeaderExtensions(localExts, Tail(remoteExts))
         IN  IF matchingLocalExts = <<>> THEN rest
             ELSE <<[kind |-> remoteExt.kind,
                     uri |-> remoteExt.uri,
                     sendId |-> matchingLocalExts[1].preferredId,
                     recvId |-> remoteExt.preferredId,
                     encrypt |-> matchingLocalExts[1].preferredEncrypt,
                     direction |-> MirroredDirection(remoteExt.direction)]>>
                  \o rest

\* ortc.getRecvRtpCapabilities, its second loop
RecvHeaderExtensions(headerExtensions) ==
    LET valid == SelectSeq(headerExtensions, LAMBDA e :
                     ~(e.direction # "sendrecv" /\ e.direction # "recvonly"))
    IN  [i \in 1 .. Len(valid) |->
            [kind |-> valid[i].kind,
             uri |-> valid[i].uri,
             preferredId |-> valid[i].recvId,
             preferredEncrypt |-> valid[i].encrypt,
             direction |-> valid[i].direction]]

\* a new object on the heap, and the reference it gets
Alloc(heap, object) == Append(heap, object)
NewRef(heap) == Len(heap) + 1

\* ExtendedRtpCapabilities as the objects Python holds: the rtcpFeedback
\* list of every extended codec is on the heap, the codec holds its
\* reference ; gives [heap, ext]
ExtendedRtpCapabilitiesObject(codecs, headerExtensions) ==
    [heap |-> [i \in 1 .. Len(codecs) |-> codecs[i].rtcpFeedback],
     ext |-> [codecs |-> [i \in 1 .. Len(codecs) |->
                             [codecs[i] EXCEPT !.rtcpFeedback = i]],
              headerExtensions |-> headerExtensions]]

\* ortc.getSendingRtpParameters and ortc.getSendingRemoteRtpParameters,
\* their first loop: RtpCodecParameters(..., rtcpFeedback=
\* extendedCodec.rtcpFeedback) builds the list of the new codec from the
\* list given, a new list with the same entries ; the RTX codec follows
\* when localRtxPayloadType is truthy, with a new empty list ; gives
\* [heap, val]
RECURSIVE SendingCodecs(_, _, _)
SendingCodecs(heap, kind, extendedCodecs) ==
    IF extendedCodecs = <<>> THEN [heap |-> heap, val |-> <<>>]
    ELSE IF Head(extendedCodecs).kind # kind
    THEN SendingCodecs(heap, kind, Tail(extendedCodecs))
    ELSE LET extendedCodec == Head(extendedCodecs)
             withRtx == Truthy(extendedCodec.localRtxPayloadType)
             codec == [mimeType |-> extendedCodec.mimeType,
                       payloadType |-> extendedCodec.localPayloadType,
                       clockRate |-> extendedCodec.clockRate,
                       channels |-> extendedCodec.channels,
                       apt |-> Nothing,
                       rtcpFeedback |-> NewRef(heap)]
             heap1 == Alloc(heap, heap[extendedCodec.rtcpFeedback])
             rtxCodec == [mimeType |-> extendedCodec.kind \o "/rtx",
                          payloadType |-> extendedCodec.localRtxPayloadType[1],
                          clockRate |-> extendedCodec.clockRate,
                          channels |-> Nothing,
                          apt |-> Some(extendedCodec.localPayloadType),
                          rtcpFeedback |-> NewRef(heap1)]
             heap2 == IF withRtx THEN Alloc(heap1, <<>>) ELSE heap1
             rest == SendingCodecs(heap2, kind, Tail(extendedCodecs))
         IN  [heap |-> rest.heap,
              val |-> <<codec>> \o (IF withRtx THEN <<rtxCodec>> ELSE <<>>)
                      \o rest.val]

\* the second loop that numbers the extensions with the remote ids
SendingHeaderExtensions_recvId(kind, headerExtensions) ==
    LET sendable == SelectSeq(headerExtensions, LAMBDA e :
                        ~(e.kind # kind
                          \/ e.direction \notin {"sendrecv", "sendonly"}))
    IN  [i \in 1 .. Len(sendable) |->
            [uri |-> sendable[i].uri,
             id |-> sendable[i].recvId,
             encrypt |-> sendable[i].encrypt]]

\* ortc.getSendingRtpParameters and ortc.getSendingRemoteRtpParameters,
\* their second loop
SendingHeaderExtensions(kind, headerExtensions) ==
    LET sendable == SelectSeq(headerExtensions, LAMBDA e :
                        ~(e.kind # kind
                          \/ e.direction \notin {"sendrecv", "sendonly"}))
    IN  [i \in 1 .. Len(sendable) |->
            [uri |-> sendable[i].uri,
             id |-> sendable[i].sendId,
             encrypt |-> sendable[i].encrypt]]

\* ortc.getSendingRtpParameters ; gives [heap, val]
getSendingRtpParameters(heap, kind, extendedRtpCapabilities) ==
    LET codecs == SendingCodecs(heap, kind, extendedRtpCapabilities.codecs)
    IN  [heap |-> codecs.heap,
         val |-> [codecs |-> codecs.val,
                  headerExtensions |->
                      SendingHeaderExtensions(
                          kind, extendedRtpCapabilities.headerExtensions)]]

TransportWideCcUri ==
    "http://www.ietf.org/id/draft-holmer-rmcat-transport-wide-cc-extensions-01"
AbsSendTimeUri == "http://www.webrtc.org/experiments/rtp-hdrext/abs-send-time"

\* codec.rtcpFeedback = [fb for fb in codec.rtcpFeedback if fb.type not in
\* types], for every codec in turn: the comprehension builds a new list and
\* the codec is made to hold it ; gives [heap, val]
RECURSIVE ReduceFeedback(_, _, _)
ReduceFeedback(heap, codecs, types) ==
    IF codecs = <<>> THEN [heap |-> heap, val |-> <<>>]
    ELSE LET codec == Head(codecs)
             reduced == SelectSeq(heap[codec.rtcpFeedback],
                                  LAMBDA fb : fb.type \notin types)
             rest == ReduceFeedback(Alloc(heap, reduced), Tail(codecs), types)
         IN  [heap |-> rest.heap,
              val |-> <<[codec EXCEPT !.rtcpFeedback = NewRef(heap)]>>
                      \o rest.val]

\* getSendingRemoteRtpParameters that looks for abs-send-time first
getSendingRemoteRtpParameters_absSendTimeFirst(heap, kind, extendedRtpCapabilities) ==
    LET rtpParameters ==
            getSendingRtpParameters(heap, kind, extendedRtpCapabilities)
        uris == {rtpParameters.val.headerExtensions[i].uri :
                    i \in 1 .. Len(rtpParameters.val.headerExtensions)}
        types == IF AbsSendTimeUri \in uris THEN {"transport-cc"}
                 ELSE IF TransportWideCcUri \in uris THEN {"goog-remb"}
                 ELSE {"transport-cc", "goog-remb"}
        codecs == ReduceFeedback(rtpParameters.heap, rtpParameters.val.codecs,
                                 types)
    IN  [heap |-> codecs.heap,
         val |-> [rtpParameters.val EXCEPT !.codecs = codecs.val]]

\* ortc.getSendingRemoteRtpParameters ; gives [heap, val].  Its two loops
\* are those of getSendingRtpParameters for what is modelled of a codec
\* (the parameters dicts, where the two differ, are left out)
getSendingRemoteRtpParameters(heap, kind, extendedRtpCapabilities) ==
    LET rtpParameters ==
            getSendingRtpParameters(heap, kind, extendedRtpCapabilities)
        uris == {rtpParameters.val.headerExtensions[i].uri :
                    i \in 1 .. Len(rtpParameters.val.headerExtensions)}
        types == IF TransportWideCcUri \in uris THEN {"goog-remb"}
                 ELSE IF AbsSendTimeUri \in uris THEN {"transport-cc"}
                 ELSE {"transport-cc", "goog-remb"}
        codecs == ReduceFeedback(rtpParameters.heap, rtpParameters.val.codecs,
                                 types)
    IN  [heap |-> codecs.heap,
         val |-> [rtpParameters.val EXCEPT !.codecs = codecs.val]]

(***************************************************************************)
(* The functions of ortc.py that turn capabilities into RTP parameters:    *)
(* result.arg holds the capabilities of the two sides and the kind asked   *)
(* for, result.val the heap, the extended capabilities and what each       *)
(* function returned (an Optional each), result.op the function applied    *)
(* last                                                                    *)
(***************************************************************************)
MaxHeaderExtensions == 2      \* header extensions a router lists

WithFeedback(codec, rtcpFeedback) == [codec EXCEPT !.rtcpFeedback = rtcpFeedback]

\* what the native engine may offer
SendingLocalCodecInputs ==
    {<<Codec("audio", "audio/opus", 48000, 96),
       WithFeedback(Codec("video", "video/VP8", 90000, 97),
                    <<RtcpFeedback("nack", ""), RtcpFeedback("goog-remb", ""),
                      RtcpFeedback("transport-cc", "")>>),
       RtxCodec("video", 90000, 99, 97)>>,
     <<WithFeedback(Codec("video", "video/VP8", 90000, 97),
                    <<RtcpFeedback("goog-remb", ""), RtcpFeedback("nack", "")>>),
       WithFeedback(Codec("video", "video/vp8", 90000, 98),
                    <<RtcpFeedback("transport-cc", "")>>)>>}
SendingLocalExtensionInputs ==
    {<<HeaderExtension("video", TransportWideCcUri, 1, "sendrecv"),
       HeaderExtension("video", AbsSendTimeUri, 2, "sendrecv"),
       HeaderExtension("audio", AbsSendTimeUri, 3, "sendrecv")>>,
     <<HeaderExtension("video", AbsSendTimeUri, 2, "sendrecv"),
       HeaderExtension("video", AbsSendTimeUri, 4, "sendrecv"),
       HeaderExtension("video", TransportWideCcUri, 1, "sendrecv")>>}

\* what a router may list
SendingRemoteCodecInputs ==
    {Codec("audio", "audio/opus", 48000, 100),
     WithFeedback(Codec("video", "video/vp8", 90000, 101),
                  <<RtcpFeedback("transport-cc", ""), RtcpFeedback("goog-remb", ""),
                    RtcpFeedback("nack", "")>>),
     WithFeedback(Codec("video", "video/vp8", 90000, 103),
                  <<RtcpFeedback("goog-remb", "")>>),
     RtxCodec("video", 90000, 102, 101)}
SendingRemoteExtensionInputs ==
    {HeaderExtension("video", TransportWideCcUri, 5, "sendrecv"),
     HeaderExtension("video", AbsSendTimeUri, 6, "recvonly"),
     HeaderExtension("video", TransportWideCcUri, 7, "sendonly"),
     HeaderExtension("audio", AbsSendTimeUri, 8, "sendrecv"),
     HeaderExtension("video", AbsSendTimeUri, 9, "inactive")}

\* RtpCapabilities
RtpCapabilities(codecs, headerExtensions) ==
    [codecs |-> codecs, headerExtensions |-> headerExtensions]

InitSending ==
    /\ remoteSdp = RemoteSdp_init(TransportIceParameters, TRUE)
    /\ handler = AiortcHandler_init("send")
    /\ pc = RTCPeerConnection_init
    /\ transport = Transport_init("send", {}, FALSE, CanProduceByKind,
                                  ExtendedRtpCapabilities)
    /\ handles = <<>>
    /\ tasks = {}
    /\ device = Device_init
    /\ \E localCodecs \in SendingLocalCodecInputs,
          localExts \in SendingLocalExtensionInputs,
          remoteCodecs \in SeqsUpTo(SendingRemoteCodecInputs, MaxCodecs),
          remoteExts \in SeqsUpTo(SendingRemoteExtensionInputs,
                                  MaxHeaderExtensions),
          kind \in MediaKinds :
           result = [op |-> "capabilities",
                     arg |-> [localCaps |-> RtpCapabilities(localCodecs, localExts),
                              remoteCaps |-> RtpCapabilities(remoteCodecs, remoteExts),
                              kind |-> kind],
                     err |-> NoError,
                     val |-> [heap |-> <<>>, ext |-> Nothing,
                              sending |-> Nothing, remote |-> Nothing,
                              recv |-> Nothing]]

\* ortc.getExtendedRtpCapabilities(localCaps, remoteCaps), its result as
\* the objects Python holds
LoadCapabilities ==
    /\ result.op = "capabilities"
    /\ LET object == ExtendedRtpCapabilitiesObject(
                         getExtendedRtpCapabilities(result.arg.localCaps.codecs,
                                                    result.arg.remoteCaps.codecs),
                         MatchHeaderExtensions(
                             result.arg.localCaps.headerExtensions,
                             result.arg.remoteCaps.headerExtensions))
       IN  OrtcResult("getExtendedRtpCapabilities", result.arg, NoError,
                      [result.val EXCEPT !.heap = object.heap,
                                         !.ext = Some(object.ext)])

SendingRtpParameters ==
    /\ result.val.ext # Nothing
    /\ result.val.sending = Nothing
    /\ LET r == getSendingRtpParameters(result.val.heap, result.arg.kind,
                                        result.val.ext[1])
       IN  OrtcResult("getSendingRtpParameters", result.arg, NoError,
                      [result.val EXCEPT !.heap = r.heap,
                                         !.sending = Some(r.val)])

SendingRemoteRtpParameters ==
    /\ result.val.ext # Nothing
    /\ result.val.remote = Nothing
    /\ LET r == getSendingRemoteRtpParameters(result.val.heap, result.arg.kind,
                                              result.val.ext[1])
       IN  OrtcResult("getSendingRemoteRtpParameters", result.arg, NoError,
                      [result.val EXCEPT !.heap = r.heap,
                                         !.remote = Some(r.val)])

RecvRtpCapabilities ==
    /\ result.val.ext # Nothing
    /\ result.val.recv = Nothing
    /\ OrtcResult("getRecvRtpCapabilities", result.arg, NoError,
                  [result.val EXCEPT !.recv =
                      Some(RtpCapabilities(
                          <<>>,
                          RecvHeaderExtensions(
                              result.val.ext[1].headerExtensions)))])

NextSending ==
    \/ LoadCapabilities
    \/ SendingRtpParameters
    \/ SendingRemoteRtpParameters
    \/ RecvRtpCapabilities

SpecSending == InitSending /\ [][NextSending]_vars

\* the uris of the header extensions of RTP parameters
Uris(rtpParameters) ==
    {rtpParameters.headerExtensions[i].uri :
        i \in 1 .. Len(rtpParameters.headerExtensions)}

\* the feedback types the spec has getSendingRemoteRtpParameters strip
StrippedTypes(rtpParameters) ==
    IF TransportWideCcUri \in Uris(rtpParameters) THEN {"goog-remb"}
    ELSE IF AbsSendTimeUri \in Uris(rtpParameters) THEN {"transport-cc"}
    ELSE {"goog-remb", "transport-cc"}

\* C21: in the result of getSendingRemoteRtpParameters(kind, ext) no codec
\* has goog-remb feedback if the transport-wide-cc extension is among the
\* result's extensions, otherwise none has transport-cc feedback if
\* abs-send-time is among them, otherwise none has either ; every other
\* feedback entry of ext's codecs of that kind is kept, in order ; and the
\* call changes no list that existed before it, so not the feedback lists
\* inside ext nor those of getSendingRtpParameters(kind, ext).
C21_RemoteFeedbackReduced ==
    [][result'.op = "getSendingRemoteRtpParameters" =>
          LET heap == result'.val.heap
              rtpParameters == result'.val.remote[1]
              media == SelectSeq(rtpParameters.codecs, LAMBDA c : ~isRtxCodec(c))
              ofKind == SelectSeq(result.val.ext[1].codecs,
                                  LAMBDA c : c.kind = result.arg.kind)
              types == StrippedTypes(rtpParameters)
          IN  /\ \A i \in 1 .. Len(rtpParameters.codecs) :
                     LET rtcpFeedback == heap[rtpParameters.codecs[i].rtcpFeedback]
                     IN  \A j \in 1 .. Len(rtcpFeedback) :
                             rtcpFeedback[j].type \notin types
              /\ Len(media) = Len(ofKind)
              /\ \A i \in 1 .. Len(media) :
                     heap[media[i].rtcpFeedback] =
                         SelectSeq(result.val.heap[ofKind[i].rtcpFeedback],
                                   LAMBDA fb : fb.type \notin types)
              /\ \A ref \in 1 .. Len(result.val.heap) :
                     heap[ref] = result.val.heap[ref]
              /\ result'.val.ext = result.val.ext
              /\ result'.val.sending = result.val.sending]_vars

\* getSendingRemoteRtpParameters was called after getSendingRtpParameters,
\* its result lists the transport-wide-cc extension, and a codec of ext had
\* goog-remb feedback to strip and other feedback to keep
C21_Witness ==
    /\ result.op = "getSendingRemoteRtpParameters"
    /\ result.val.sending # Nothing
    /\ TransportWideCcUri \in Uris(result.val.remote[1])
    /\ \E i \in 1 .. Len(result.val.ext[1].codecs) :
           LET extendedCodec == result.val.ext[1].codecs[i]
               rtcpFeedback == result.val.heap[extendedCodec.rtcpFeedback]
           IN  /\ extendedCodec.kind = result.arg.kind
               /\ \E j \in 1 .. Len(rtcpFeedback) : rtcpFeedback[j].type = "goog-remb"
               /\ \E j \in 1 .. Len(rtcpFeedback) : rtcpFeedback[j].type = "nack"

\* the local header extensions with the (kind, uri) of a remote one, and
\* the first of them
LocalMatches(localExts, remoteExt) ==
    {i \in 1 .. Len(localExts) :
        /\ localExts[i].kind = remoteExt.kind
        /\ localExts[i].uri = remoteExt.uri}
FirstLocalMatch(localExts, remoteExt) ==
    localExts[CHOOSE i \in LocalMatches(localExts, remoteExt) :
                  \A j \in LocalMatches(localExts, remoteExt) : i <= j]

\* C22: the header extensions of getSendingRtpParameters(k,
\* getExtendedRtpCapabilities(local, remote)) are, in remote order, exactly
\* the remote extensions of kind k that have a local extension with the
\* same (kind, uri) and whose remote direction is sendrecv or recvonly, each
\* with the preferred id of that local extension ; the header extensions of
\* getRecvRtpCapabilities are, in remote order, exactly the matched remote
\* extensions whose mirrored direction is sendrecv or recvonly, each with
\* the remote preferred id.
C22_HeaderExtensionsMatched ==
    LET localExts == result.arg.localCaps.headerExtensions
        matched == SelectSeq(result.arg.remoteCaps.headerExtensions,
                             LAMBDA e : LocalMatches(localExts, e) # {})
        sendable == SelectSeq(matched, LAMBDA e :
                        /\ e.kind = result.arg.kind
                        /\ e.direction \in {"sendrecv", "recvonly"})
        receivable == SelectSeq(matched, LAMBDA e :
                          e.direction \in {"sendrecv", "sendonly"})
    IN  /\ result.val.sending # Nothing =>
               LET headerExtensions == result.val.sending[1].headerExtensions
               IN  /\ Len(headerExtensions) = Len(sendable)
                   /\ \A i \in 1 .. Len(sendable) :
                          /\ headerExtensions[i].uri = sendable[i].uri
                          /\ headerExtensions[i].id =
                                 FirstLocalMatch(localExts, sendable[i]).preferredId
        /\ result.val.recv # Nothing =>
               LET headerExtensions == result.val.recv[1].headerExtensions
               IN  /\ Len(headerExtensions) = Len(receivable)
                   /\ \A i \in 1 .. Len(receivable) :
                          /\ headerExtensions[i].uri = receivable[i].uri
                          /\ headerExtensions[i].kind = receivable[i].kind
                          /\ headerExtensions[i].preferredId =
                                 receivable[i].preferredId

\* both functions were applied to capabilities whose remote side lists, for
\* the kind asked for, an extension valid for sending only, and whose local
\* side lists one extension twice
C22_Witness ==
    /\ result.val.sending # Nothing
    /\ result.val.recv # Nothing
    /\ Len(result.val.sending[1].headerExtensions) = 1
    /\ Len(result.val.recv[1].headerExtensions) = 1
    /\ result.val.sending[1].headerExtensions[1].uri
           # result.val.recv[1].headerExtensions[1].uri
    /\ \E i \in 1 .. Len(result.arg.remoteCaps.headerExtensions) :
           LET remoteExt == result.arg.remoteCaps.headerExtensions[i]
           IN  /\ remoteExt.direction = "recvonly"
               /\ Cardinality(LocalMatches(result.arg.localCaps.headerExtensions,
                                           remoteExt)) = 2

\* no value twice in a list
PairwiseDistinct(seq) ==
    \A i, j \in 1 .. Len(seq) : i # j => seq[i] # seq[j]
PreferredPayloadTypes(codecs) ==
    [i \in 1 .. Len(codecs) |-> codecs[i].preferredPayloadType]
CodecPayloadTypes(rtpParameters) ==
    [i \in 1 .. Len(rtpParameters.codecs) |-> rtpParameters.codecs[i].payloadType]

\* C23: when the payload types of the local capabilities are pairwise
\* distinct and those of the remote capabilities are pairwise distinct, the
\* codec payload types of getSendingRtpParameters(kind, ext) and of
\* getSendingRemoteRtpParameters(kind, ext) are pairwise distinct, for
\* ext = getExtendedRtpCapabilities(local, remote).
C23_SendingPayloadTypesDistinct ==
    /\ PairwiseDistinct(PreferredPayloadTypes(result.arg.localCaps.codecs))
    /\ PairwiseDistinct(PreferredPayloadTypes(result.arg.remoteCaps.codecs))
    => /\ result.val.sending # Nothing =>
              PairwiseDistinct(CodecPayloadTypes(result.val.sending[1]))
       /\ result.val.remote # Nothing =>
              PairwiseDistinct(CodecPayloadTypes(result.val.remote[1]))

(***************************************************************************)
(* ortc.matchCodecs applied to two codecs: result.arg holds the codecs and *)
(* the two flags, result.err and result.val what the call gave             *)
(***************************************************************************)
WithChannels(codec, channels) == [codec EXCEPT !.channels = channels]
WithParameters(codec, parameters) == [codec EXCEPT !.parameters = parameters]

MatchCodecInputs ==
    {WithChannels(Codec("audio", "audio/opus", 48000, 100), Some(2)),
     WithChannels(Codec("audio", "audio/OPUS", 48000, 96), Some(2)),
     WithChannels(Codec("audio", "audio/opus", 48000, 96), Some(1)),
     Codec("audio", "audio/opus", 48000, 100),
     Codec("video", "video/VP8", 90000, 97),
     Codec("video", "video/vp8", 90000, 101),
     Codec("video", "video/vp8", 48000, 101),
     Codec("video", "video/VP9", 90000, 98),
     WithParameters(Codec("video", "video/vp9", 90000, 102),
                    Parameters(Nothing, Some(0), Nothing)),
     WithParameters(Codec("video", "video/vp9", 90000, 103),
                    Parameters(Nothing, Some(2), Nothing)),
     Codec("video", "video/H264", 90000, 99),
     WithParameters(Codec("video", "video/h264", 90000, 104),
                    Parameters(Some(0), Nothing, Some("42e01f"))),
     WithParameters(Codec("video", "video/h264", 90000, 105),
                    Parameters(Some(1), Nothing, Some("42e01f"))),
     WithParameters(Codec("video", "video/h264", 90000, 106),
                    Parameters(Some(1), Nothing, Some("4d001f")))}

InitMatch ==
    /\ remoteSdp = RemoteSdp_init(TransportIceParameters, TRUE)
    /\ handler = AiortcHandler_init("send")
    /\ pc = RTCPeerConnection_init
    /\ transport = Transport_init("send", {}, FALSE, CanProduceByKind,
                                  ExtendedRtpCapabilities)
    /\ handles = <<>>
    /\ tasks = {}
    /\ device = Device_init
    /\ \E aCodec \in MatchCodecInputs, bCodec \in MatchCodecInputs,
          strict \in BOOLEAN, modify \in BOOLEAN :
           result = [op |-> "codecs",
                     arg |-> [aCodec |-> aCodec, bCodec |-> bCodec,
                              strict |-> strict, modify |-> modify],
                     err |-> NoError, val |-> FALSE]

CallMatchCodecs ==
    /\ result.op = "codecs"
    /\ LET r == matchCodecs(result.arg.aCodec, result.arg.bCodec,
                            result.arg.strict, result.arg.modify)
       IN  OrtcResult("matchCodecs", result.arg, r.err, r.val)

NextMatch == CallMatchCodecs

SpecMatch == InitMatch /\ [][NextMatch]_vars

\* mimeType compared without case, clockRate and channels are equal
SameCodecFormat(aCodec, bCodec) ==
    /\ Lower(aCodec.mimeType) = Lower(bCodec.mimeType)
    /\ aCodec.clockRate = bCodec.clockRate
    /\ aCodec.channels = bCodec.channels

\* C24: matchCodecs(a, b) returns false whenever mimeType (compared
\* without case), clockRate or channels differ ; for codecs other than H264
\* and VP9 it returns true whenever the three are equal, strict or not ;
\* for VP9 with the three equal it returns true exactly when, in strict
\* mode, the profile-id (absent = 0) is equal too ; for H264 it returns
\* false whenever the packetization-mode (absent = 0) differs.
C24_MatchCodecsComparesFormat ==
    result.op = "matchCodecs" =>
        LET aCodec == result.arg.aCodec
            bCodec == result.arg.bCodec
            mimeType == Lower(aCodec.mimeType)
        IN  /\ ~SameCodecFormat(aCodec, bCodec) =>
                   result.err = NoError /\ result.val = FALSE
            /\ SameCodecFormat(aCodec, bCodec)
                   /\ mimeType \notin {"video/h264", "video/vp9"} =>
                   result.err = NoError /\ result.val = TRUE
            /\ SameCodecFormat(aCodec, bCodec) /\ mimeType = "video/vp9" =>
                   /\ result.err = NoError
                   /\ result.val =
                          (result.arg.strict =>
                              GetOr0(aCodec.parameters.profileId)
                                  = GetOr0(bCodec.parameters.profileId))
            /\ mimeType = "video/h264"
                   /\ GetOr0(aCodec.parameters.packetizationMode)
                          # GetOr0(bCodec.parameters.packetizationMode) =>
                   result.err = NoError /\ result.val = FALSE

\* matchCodecs answered for two codecs that differ in the channels only
C24_Witness ==
    /\ result.op = "matchCodecs"
    /\ Lower(result.arg.aCodec.mimeType) = Lower(result.arg.bCodec.mimeType)
    /\ result.arg.aCodec.mimeType # result.arg.bCodec.mimeType
    /\ result.arg.aCodec.clockRate = result.arg.bCodec.clockRate
    /\ result.arg.aCodec.channels # result.arg.bCodec.channels
    /\ result.val = FALSE

(***************************************************************************)
(* ortc.generateProbatorRtpParameters.  RtpParameters are objects: the     *)
(* codecs list holds the references of codec objects, headerExtensions is  *)
(* the reference of a list, and heap[ref] is the object a reference names  *)
(***************************************************************************)
MaxProbedCodecs == 2          \* codecs in the RTP parameters of a consumer

\* ortc.RTP_PROBATOR_SSRC, ortc.RTP_PROBATOR_CODEC_PAYLOAD_TYPE
RTP_PROBATOR_SSRC == 1234
RTP_PROBATOR_CODEC_PAYLOAD_TYPE == 127

\* BaseModel.copy(deep=True) of RtpParameters: a new object for every codec
\* and a new headerExtensions list ; gives [heap, val]
RECURSIVE CopyCodecs(_, _)
CopyCodecs(heap, codecs) ==
    IF codecs = <<>> THEN [heap |-> heap, val |-> <<>>]
    ELSE LET rest == CopyCodecs(Alloc(heap, heap[Head(codecs)]), Tail(codecs))
         IN  [heap |-> rest.heap, val |-> <<NewRef(heap)>> \o rest.val]
DeepCopy(heap, rtpParameters) ==
    LET codecs == CopyCodecs(heap, rtpParameters.codecs)
    IN  [heap |-> Alloc(codecs.heap, codecs.heap[rtpParameters.headerExtensions]),
         val |-> [rtpParameters EXCEPT
                     !.codecs = codecs.val,
                     !.headerExtensions = NewRef(codecs.heap)]]

\* generateProbatorRtpParameters without the deep copy
generateProbatorRtpParameters_withoutCopy(heap, videoRtpParameters) ==
    IF videoRtpParameters.codecs = <<>>
    THEN [err |-> IndexError, heap |-> heap, val |-> Nothing]
    ELSE [err |-> NoError,
          heap |-> [heap EXCEPT ![videoRtpParameters.codecs[1]].payloadType =
                                    RTP_PROBATOR_CODEC_PAYLOAD_TYPE],
          val |-> Some([mid |-> RTP_PROBATOR_MID,
                        codecs |-> <<videoRtpParameters.codecs[1]>>,
                        headerExtensions |-> videoRtpParameters.headerExtensions,
                        encodings |-> <<[ssrc |-> RTP_PROBATOR_SSRC]>>,
                        rtcp |-> [cname |-> "probator"]])]

\* ortc.generateProbatorRtpParameters ; gives [err, heap, val] : the
\* function works on a deep copy of its argument, takes the first codec
\* object of the copy into the new parameters (IndexError when there is
\* none), writes the payload type of that object, and makes the new
\* parameters hold the headerExtensions list of the copy
generateProbatorRtpParameters(heap, videoRtpParameters) ==
    LET copy == DeepCopy(heap, videoRtpParameters)
    IN  IF copy.val.codecs = <<>>
        THEN [err |-> IndexError, heap |-> copy.heap, val |-> Nothing]
        ELSE [err |-> NoError,
              heap |-> [copy.heap EXCEPT ![copy.val.codecs[1]].payloadType =
                                             RTP_PROBATOR_CODEC_PAYLOAD_TYPE],
              val |-> Some([mid |-> RTP_PROBATOR_MID,
                            codecs |-> <<copy.val.codecs[1]>>,
                            headerExtensions |-> copy.val.headerExtensions,
                            encodings |-> <<[ssrc |-> RTP_PROBATOR_SSRC]>>,
                            rtcp |-> [cname |-> "probator"]])]

\* the codecs and header extensions of the RTP parameters of a consumer
ProbedCodecInputs ==
    {CodecParameters("video/vp8", 90000, 101),
     CodecParameters("video/rtx", 90000, 102),
     CodecParameters("video/h264", 90000, 127)}
ProbedExtensionInputs ==
    {[uri |-> AbsSendTimeUri, id |-> 6, encrypt |-> FALSE],
     [uri |-> TransportWideCcUri, id |-> 5, encrypt |-> FALSE]}

\* RtpParameters as the objects Python holds: the codec objects first, the
\* headerExtensions list after them ; gives [heap, val]
RtpParametersObject(mid, codecs, headerExtensions) ==
    [heap |-> Append(codecs, headerExtensions),
     val |-> [mid |-> mid,
              codecs |-> [i \in 1 .. Len(codecs) |-> i],
              headerExtensions |-> Len(codecs) + 1,
              encodings |-> <<[ssrc |-> 4321]>>,
              rtcp |-> [cname |-> "consumer"]]]

InitProbator ==
    /\ remoteSdp = RemoteSdp_init(TransportIceParameters, TRUE)
    /\ handler = AiortcHandler_init("recv")
    /\ pc = RTCPeerConnection_init
    /\ transport = Transport_init("recv", {}, FALSE, CanProduceByKind,
                                  ExtendedRtpCapabilities)
    /\ handles = <<>>
    /\ tasks = {}
    /\ device = Device_init
    /\ \E codecs \in SeqsUpTo(ProbedCodecInputs, MaxProbedCodecs),
          headerExtensions \in SeqsUpTo(ProbedExtensionInputs, MaxHeaderExtensions) :
           LET object == RtpParametersObject("0", codecs, headerExtensions)
           IN  result = [op |-> "rtpParameters",
                         arg |-> [p |-> object.val, heap |-> object.heap],
                         err |-> NoError,
                         val |-> [heap |-> object.heap, probator |-> Nothing]]

CallGenerateProbatorRtpParameters ==
    /\ result.op = "rtpParameters"
    /\ LET r == generateProbatorRtpParameters(result.val.heap, result.arg.p)
       IN  OrtcResult("generateProbatorRtpParameters", result.arg, r.err,
                      [heap |-> r.heap, probator |-> r.val])

NextProbator == CallGenerateProbatorRtpParameters

SpecProbator == InitProbator /\ [][NextProbator]_vars

\* C25: generateProbatorRtpParameters(p) returns parameters with mid
\* 'probator', one encoding with ssrc 1234, exactly one codec that equals
\* p's first codec except that its payload type is 127, and p's header
\* extensions ; every object of p, the first codec with its payload type
\* among them, is after the call what it was before.
C25_ProbatorParametersFromFirstCodec ==
    result.op = "generateProbatorRtpParameters" /\ result.err = NoError =>
        LET heap == result.val.heap
            probator == result.val.probator[1]
            p == result.arg.p
        IN  /\ probator.mid = "probator"
            /\ Len(probator.encodings) = 1
            /\ probator.encodings[1].ssrc = 1234
            /\ Len(probator.codecs) = 1
            /\ heap[probator.codecs[1]] =
                   [result.arg.heap[p.codecs[1]] EXCEPT !.payloadType = 127]
            /\ heap[probator.headerExtensions] =
                   result.arg.heap[p.headerExtensions]
            /\ \A ref \in 1 .. Len(result.arg.heap) :
                   heap[ref] = result.arg.heap[ref]

\* the probator parameters were made from parameters with two codecs and a
\* header extension, whose first codec has another payload type than 127
C25_Witness ==
    /\ result.op = "generateProbatorRtpParameters"
    /\ result.err = NoError
    /\ Len(result.arg.p.codecs) = 2
    /\ result.arg.heap[result.arg.p.codecs[1]].payloadType = 101
    /\ result.arg.heap[result.arg.p.headerExtensions] # <<>>

(***************************************************************************)
(* The session builder with every method it has, the calls of getSdp       *)
(* counted: result.val is the number of getSdp calls so far                *)
(***************************************************************************)
DtlsRoleInputs == {"client", "server", "auto"}
IceParameterInputs == {IceParameters("ufrag1", "pwd1", FALSE)}

InitSession ==
    /\ remoteSdp = RemoteSdp_init(TransportIceParameters, TRUE)
    /\ handler = AiortcHandler_init("send")
    /\ pc = RTCPeerConnection_init
    /\ transport = Transport_init("send", {}, TRUE, CanProduceByKind,
                                  ExtendedRtpCapabilities)
    /\ handles = <<>>
    /\ tasks = {}
    /\ device = Device_init
    /\ result = [op |-> None, arg |-> None, err |-> NoError, val |-> 0]

\* a method of the builder was called and left the builder as s
SessionCall(op, arg, err, s) ==
    /\ remoteSdp' = s
    /\ result' = [result EXCEPT
                      !.val = IF op = "getSdp" THEN @ + 1 ELSE @]
    /\ UNCHANGED <<handler, pc, transport, handles, tasks, device>>

SessionSend(mid, kind, reuseMid) ==
    LET r == RemoteSdp_send(remoteSdp, mid, kind, reuseMid)
    IN  WithinBound(remoteSdp, r) /\ SessionCall("send", mid, r.err, r.s)

SessionReceive(mid, kind) ==
    LET r == RemoteSdp_receive(remoteSdp, mid, kind)
    IN  WithinBound(remoteSdp, r) /\ SessionCall("receive", mid, r.err, r.s)

SessionDisableMediaSection(mid) ==
    LET r == RemoteSdp_disableMediaSection(remoteSdp, mid)
    IN  SessionCall("disableMediaSection", mid, r.err, r.s)

SessionCloseMediaSection(mid) ==
    LET r == RemoteSdp_closeMediaSection(remoteSdp, mid)
    IN  SessionCall("closeMediaSection", mid, r.err, r.s)

SessionSendSctpAssociation(mid) ==
    /\ Len(remoteSdp.mediaSections) < MaxSections
    /\ SessionCall("sendSctpAssociation", mid, NoError,
                   RemoteSdp_sendSctpAssociation(remoteSdp, mid))

SessionReceiveSctpAssociation ==
    /\ Len(remoteSdp.mediaSections) < MaxSections
    /\ SessionCall("receiveSctpAssociation", None, NoError,
                   RemoteSdp_receiveSctpAssociation(remoteSdp))

SessionUpdateIceParameters(iceParameters) ==
    SessionCall("updateIceParameters", iceParameters, NoError,
                RemoteSdp_updateIceParameters(remoteSdp, iceParameters))

SessionUpdateDtlsRole(role) ==
    SessionCall("updateDtlsRole", role, NoError,
                RemoteSdp_updateDtlsRole(remoteSdp, role))

SessionGetSdp ==
    /\ remoteSdp.sessionVersion < MaxVersion
    /\ SessionCall("getSdp", None, NoError, RemoteSdp_getSdp(remoteSdp))

NextSession ==
    \/ \E mid \in MidInputs, kind \in KindInputs, reuseMid \in MidInputs \cup {None} :
           SessionSend(mid, kind, reuseMid)
    \/ \E mid \in RecvMids, kind \in KindInputs : SessionReceive(mid, kind)
    \/ \E mid \in NamedMids : SessionDisableMediaSection(mid)
    \/ \E mid \in NamedMids : SessionCloseMediaSection(mid)
    \/ \E mid \in MidInputs : SessionSendSctpAssociation(mid)
    \/ SessionReceiveSctpAssociation
    \/ \E iceParameters \in IceParameterInputs \cup {TransportIceParameters} :
           SessionUpdateIceParameters(iceParameters)
    \/ \E role \in DtlsRoleInputs : SessionUpdateDtlsRole(role)
    \/ SessionGetSdp

SpecSession == InitSession /\ [][NextSession]_vars

\* C26: every getSdp() call raises the origin sessionVersion by exactly 1
\* and no other method of the builder changes it: after any calls on a
\* fresh builder, n of them getSdp(), the version is n.
C26_VersionCountsGetSdpCalls == remoteSdp.sessionVersion = result.val

\* getSdp() was called MaxVersion times on a builder that also got
\* sections, new ICE parameters and a DTLS role in between
C26_Witness ==
    /\ result.val = MaxVersion
    /\ Len(remoteSdp.mediaSections) = MaxSections
    /\ remoteSdp.iceParameters # TransportIceParameters
    /\ remoteSdp.dtlsRole = "client"

\* every section has the ICE username fragment and password of p
SectionsHaveIce(s, iceParameters) ==
    \A i \in Indices(s) :
        /\ SectionAt(s, i).iceUfrag = iceParameters.usernameFragment
        /\ SectionAt(s, i).icePwd = iceParameters.password

\* every section has the setup attribute that reflects the DTLS role
SectionsHaveSetup(s, role) ==
    \A i \in Indices(s) :
        SectionAt(s, i).setup =
            IF SectionAt(s, i).cls = "offer" THEN "actpass"
            ELSE CASE role = "client" -> "active"
                   [] role = "server" -> "passive"
                   [] role = "auto" -> "actpass"

\* C27: after updateDtlsRole(r) the setup attribute of every existing
\* section reflects r (answer sections client -> active, server -> passive,
\* auto -> actpass ; offer sections always actpass), and after
\* updateIceParameters(p) the ICE-lite flag of the session and the ICE
\* username fragment and password of every existing section reflect p.
C27_UpdatesReachEverySection ==
    [][/\ \A role \in DtlsRoleInputs :
              SessionUpdateDtlsRole(role) => SectionsHaveSetup(remoteSdp', role)
       /\ \A iceParameters \in IceParameterInputs :
              SessionUpdateIceParameters(iceParameters) =>
                  /\ remoteSdp'.icelite = iceParameters.iceLite
                  /\ SectionsHaveIce(remoteSdp', iceParameters)]_vars

\* C28: disableMediaSection(mid) sets the direction of the section of that
\* mid to inactive and removes its ext, ssrcs, ssrcGroups, simulcast and
\* rids entries ; its port, its mid and its index, the closed status of
\* every section, the BUNDLE group and every other section are as before.
C28_DisableKeepsThePort ==
    [][\A mid \in NamedMids :
          SessionDisableMediaSection(mid) /\ mid \in DOMAIN remoteSdp.midToIndex =>
              LET idx == remoteSdp.midToIndex[mid]
                  before == SectionAt(remoteSdp, idx)
                  after == SectionAt(remoteSdp', idx)
              IN  /\ after.direction = "inactive"
                  /\ after.rows \cap {"ext", "ssrcs", "ssrcGroups", "simulcast",
                                      "simulcast_03", "rids"} = {}
                  /\ after.port = before.port
                  /\ after.mid = before.mid
                  /\ remoteSdp'.midToIndex = remoteSdp.midToIndex
                  /\ Len(remoteSdp'.mediaSections) = Len(remoteSdp.mediaSections)
                  /\ \A i \in Indices(remoteSdp) :
                         MediaSection_closed(SectionAt(remoteSdp', i))
                             = MediaSection_closed(SectionAt(remoteSdp, i))
                  /\ remoteSdp'.bundleMids = remoteSdp.bundleMids
                  /\ OthersUntouched(remoteSdp, remoteSdp', idx)]_vars

\* a section that is not the first-registered one has been disabled: it is
\* inactive without its rows, still open and still in BUNDLE, next to an
\* open section that has its rows
C28_Witness ==
    /\ Len(remoteSdp.mediaSections) = 2
    /\ SectionAt(remoteSdp, 1).mid # remoteSdp.firstMid
    /\ SectionAt(remoteSdp, 1).type = "video"
    /\ SectionAt(remoteSdp, 1).direction = "inactive"
    /\ SectionAt(remoteSdp, 1).rows = {}
    /\ SectionAt(remoteSdp, 1).port = DiscardPort
    /\ InBundle(remoteSdp, SectionAt(remoteSdp, 1).mid)
    /\ SectionAt(remoteSdp, 0).rows # {}

(***************************************************************************)
(* Two produce() calls on one Transport, as coroutines.  A call runs until *)
(* an await and is resumed when the awaited call returns; an awaited call  *)
(* takes effect when it returns.  tasks holds the frame of each call: the  *)
(* await it is suspended in and its local variables.                       *)
(***************************************************************************)
Calls == {"first", "second"}
ProducerIds == [first |-> "p1", second |-> "p2"]

\* a call that has not started
NoFrame ==
    [at |-> "start", kind |-> None,
     mediaSectionIdx |-> [idx |-> 0, reuseMid |-> None],
     transceiver |-> 0, offer |-> <<>>, localId |-> None]

\* the call is suspended in the await named, or has returned or raised
At(frame, at) == [frame EXCEPT !.at = at]

\* pc.setLocalDescription(offer) for an offer created earlier: the local
\* description is that offer, and the transceivers it does not list wait
\* for the next one
SetLocalDescription(p, offer) ==
    LET transceivers == p.mlines \o p.pending
    IN  [p EXCEPT !.mlines = offer,
                  !.pending = SubSeq(transceivers, Len(offer) + 1,
                                     Len(transceivers))]

\* send() that takes the slot of its own transceiver instead of asking the
\* session builder
AiortcHandler_send_enter_ownSlot(w, kind, fail) ==
    IF w.handler.direction # "send" THEN Fail(ExceptionRaised, w)
    ELSE
    LET transceiver == Len(w.pc.mlines) + Len(w.pc.pending) + 1
        mediaSectionIdx == [idx |-> transceiver - 1, reuseMid |-> None]
    IN  Then(Native(w, "addTransceiver", fail,
                    [w EXCEPT !.pc.pending = Append(@, kind)]),
             LAMBDA u : OkVal(u, [NoFrame EXCEPT
                                     !.at = "createOffer",
                                     !.kind = kind,
                                     !.mediaSectionIdx = mediaSectionIdx,
                                     !.transceiver = transceiver]))

\* AiortcHandler.send up to `await self.pc.createOffer()` : the slot index
\* is computed and the transceiver added
AiortcHandler_send_enter(w, kind, fail) ==
    IF w.handler.direction # "send" THEN Fail(ExceptionRaised, w)
    ELSE
    LET mediaSectionIdx == getNextMediaSectionIdx(w.sdp)
        \* the new transceiver is the last one of the engine
        transceiver == Len(w.pc.mlines) + Len(w.pc.pending) + 1
    IN  Then(Native(w, "addTransceiver", fail,
                    [w EXCEPT !.pc.pending = Append(@, kind)]),
             LAMBDA u : OkVal(u, [NoFrame EXCEPT
                                     !.at = "createOffer",
                                     !.kind = kind,
                                     !.mediaSectionIdx = mediaSectionIdx,
                                     !.transceiver = transceiver]))

\* Transport.produce up to the first await of the handler
Transport_produce_enter(w, track, fail) ==
    IF track.kind = None THEN Fail(TypeError, w)
    ELSE IF w.transport.direction # "send" THEN Fail(UnsupportedError, w)
    ELSE IF ~w.transport.canProduceByKind[track.kind] THEN Fail(UnsupportedError, w)
    ELSE IF track.readyState = "ended" THEN Fail(InvalidStateError, w)
    ELSE IF "connect" \notin w.transport.listeners THEN Fail(TypeError, w)
    ELSE AiortcHandler_send_enter(Trace(w, "handler.send"), track.kind, fail)

\* createOffer() returned: the offer lists the transceivers the engine has
\* now; then `if not self._transportReady` starts _setupTransport, which
\* updates the DTLS role and awaits the 'connect' subscribers
AiortcHandler_send_offered(w, frame, fail) ==
    Then(Native(w, "createOffer", fail, w),
         LAMBDA u :
             LET offered == [frame EXCEPT !.offer = LocalOffer(u.pc)]
             IN  IF u.handler.transportReady
                 THEN OkVal(u, At(offered, "setLocalDescription"))
                 ELSE OkVal([u EXCEPT !.sdp = RemoteSdp_updateDtlsRole(@, "client")],
                            At(offered, "connect")))

\* the 'connect' subscribers returned: _setupTransport records that the
\* transport is ready, and send() awaits setLocalDescription(offer)
AiortcHandler_send_connected(w, frame, fail) ==
    Then(Transport_on_connect(w, fail),
         LAMBDA u : OkVal([u EXCEPT !.handler.transportReady = TRUE],
                          At(frame, "setLocalDescription")))

\* setLocalDescription(offer) returned: localId is the mid of the call's
\* transceiver, the m-line at the slot index is read from the local
\* description, the session builder is updated and its answer is given to
\* setRemoteDescription
AiortcHandler_send_described(w, frame, fail) ==
    LET mediaSectionIdx == frame.mediaSectionIdx
        localId == ToString(frame.transceiver - 1)
        r1 == Native(w, "setLocalDescription", fail,
                     [w EXCEPT !.pc = SetLocalDescription(@, frame.offer)])
        r2 == Then(r1, LAMBDA u :
                  IF mediaSectionIdx.idx >= Len(u.pc.mlines)
                  THEN Fail(IndexError, u)
                  ELSE SdpStep(u, RemoteSdp_send(u.sdp,
                                      ToString(mediaSectionIdx.idx),
                                      u.pc.mlines[mediaSectionIdx.idx + 1],
                                      mediaSectionIdx.reuseMid)))
        r3 == Then(r2, LAMBDA u : GetSdp(u))
    IN  Then(r3, LAMBDA u :
                OkVal(u, [frame EXCEPT !.at = "setRemoteDescription",
                                       !.localId = localId]))

\* setRemoteDescription(answer) returned: send() stores the transceiver and
\* returns; produce() awaits the 'produce' subscribers
AiortcHandler_send_answered(w, frame, fail) ==
    Then(Native(w, "setRemoteDescription", fail,
                [w EXCEPT !.handler.mapMidTransceiver = @ \cup {frame.localId}]),
         LAMBDA u : OkVal(u, At(frame, "produce")))

\* the 'produce' subscribers returned: the Producer is built and registered
Transport_produce_registered(w, frame, id, fail) ==
    Then(EmitForId(w, "produce", fail),
         LAMBDA v :
             OkVal(ObserverEmitNew(
                       WithKind(
                           Register(v, "Producer", id, frame.localId, None),
                           frame.kind),
                       "newproducer"),
                   At(frame, "returned")))

\* the listeners the application has set before it produces
OverlapListeners == {{"connect"}, {"connect", "produce"}}
\* the tracks it produces
OverlapTracks ==
    {[kind |-> "video", readyState |-> "live"],
     [kind |-> "video", readyState |-> "ended"]}

InitOverlap ==
    \E listeners \in OverlapListeners :
        /\ remoteSdp = RemoteSdp_init(TransportIceParameters, TRUE)
        /\ handler = AiortcHandler_init("send")
        /\ pc = RTCPeerConnection_init
        /\ transport = Transport_init("send", listeners, FALSE,
                                      CanProduceByKind, ExtendedRtpCapabilities)
        /\ handles = <<>>
        /\ tasks = [call \in Calls |-> NoFrame]
        /\ device = Device_init
        /\ result = NoCall

\* the call moves on: its frame is what the step returned, or the call has
\* raised
Resume(call, r) ==
    /\ SetWorld([r.w EXCEPT !.tasks[call] =
                     IF Failed(r) THEN At(tasks[call], "raised") ELSE r.val])
    /\ Outcome("produce", r)

ProduceEnter(call, track, fail) ==
    /\ tasks[call].at = "start"
    /\ Resume(call, Transport_produce_enter(World, track, fail))

CreateOfferReturns(call, fail) ==
    /\ tasks[call].at = "createOffer"
    /\ Resume(call, AiortcHandler_send_offered(World, tasks[call], fail))

ConnectReturns(call, fail) ==
    /\ tasks[call].at = "connect"
    /\ Resume(call, AiortcHandler_send_connected(World, tasks[call], fail))

SetLocalDescriptionReturns(call, fail) ==
    /\ tasks[call].at = "setLocalDescription"
    /\ Resume(call, AiortcHandler_send_described(World, tasks[call], fail))

SetRemoteDescriptionReturns(call, fail) ==
    /\ tasks[call].at = "setRemoteDescription"
    /\ Resume(call, AiortcHandler_send_answered(World, tasks[call], fail))

ProduceReturns(call, fail) ==
    /\ tasks[call].at = "produce"
    /\ Resume(call, Transport_produce_registered(World, tasks[call],
                                                 ProducerIds[call], fail))

NextOverlap ==
    \E call \in Calls :
        \/ \E track \in OverlapTracks, fail \in {None, "addTransceiver"} :
               ProduceEnter(call, track, fail)
        \/ \E fail \in {None, "createOffer"} : CreateOfferReturns(call, fail)
        \/ \E fail \in {None, "connect"} : ConnectReturns(call, fail)
        \/ \E fail \in {None, "setLocalDescription"} :
               SetLocalDescriptionReturns(call, fail)
        \/ \E fail \in {None, "setRemoteDescription"} :
               SetRemoteDescriptionReturns(call, fail)
        \/ \E fail \in {None, "produce"} : ProduceReturns(call, fail)

SpecOverlap == InitOverlap /\ [][NextOverlap]_vars

\* the awaits of send() between the computation of the slot index and the
\* update of the session builder
BeforeBuilderUpdate == {"createOffer", "connect", "setLocalDescription"}

\* call enters the handler in this step while the other call is suspended
\* before its update of the session builder
EntersDuring(call, other) ==
    /\ tasks[call].at = "start"
    /\ tasks'[call].at = "createOffer"
    /\ tasks[other].at \in BeforeBuilderUpdate

\* every call has returned its Producer
AllReturned == \A call \in Calls : tasks[call].at = "returned"

\* C29: nothing serializes the calls on one Transport: whenever a produce()
\* enters the handler while the other is suspended in the native engine after
\* its slot index was computed and before the session builder was updated,
\* it obtains the same media-section index; and when two calls that
\* obtained the same index have both returned, the session has fewer
\* sections than the Transport has producers.
C29_OverlappingCallsShareTheSlot ==
    /\ [][\A call \in Calls : \A other \in Calls \ {call} :
              EntersDuring(call, other) =>
                  tasks'[call].mediaSectionIdx = tasks[other].mediaSectionIdx]_vars
    /\ [](AllReturned
          /\ tasks["first"].mediaSectionIdx = tasks["second"].mediaSectionIdx
          => Len(remoteSdp.mediaSections) < Len(transport.producers))

\* both calls returned a Producer, and the session has one section
C29_Witness ==
    /\ AllReturned
    /\ tasks["first"].mediaSectionIdx = tasks["second"].mediaSectionIdx
    /\ Len(transport.producers) = 2
    /\ Len(remoteSdp.mediaSections) = 1
    /\ handles[1].localId # handles[2].localId

(***************************************************************************)
(* data_consumer.py : DataConsumer objects and their emitters.  An         *)
(* attribute read on an object gives the object's own attribute when it    *)
(* has been assigned, else the attribute of the class.  result.val holds   *)
(* the emitters by reference, handles the DataConsumer objects, tasks the  *)
(* subscriber calls made so far.                                           *)
(***************************************************************************)
MaxDataConsumers == 2         \* DataConsumer objects built
MaxListeners == 2             \* subscribers registered on one emitter

\* AsyncIOEventEmitter() : no subscriber yet; the subscribers of an event
\* are kept in the order of registration
EventEmitter == [close |-> <<>>]

\* the class body of DataConsumer, evaluated once: _closed = False and
\* _observer = AsyncIOEventEmitter(), the emitter at reference 1
DataConsumerClass == [closed |-> Some(FALSE), observer |-> Some(1)]

\* DataConsumer.__init__ : super().__init__() makes the object an emitter of
\* its own; no assignment to self._closed or self._observer
DataConsumer_init(id) == [id |-> id, closed |-> Nothing, observer |-> Nothing]

\* self._closed and self._observer
GetAttr(self, name) ==
    IF self[name] # Nothing THEN self[name][1] ELSE DataConsumerClass[name][1]

\* DataConsumer.closed
DataConsumer_closed(self) == GetAttr(self, "closed")
\* DataConsumer.observer
DataConsumer_observer(self) == GetAttr(self, "observer")

\* emitter.on('close', f) : f is named by the subscriber and by the
\* DataConsumer whose observer property gave the emitter
EventEmitter_on(heap, ref, f) ==
    [heap EXCEPT ![ref].close = Append(@, f)]

\* emitter.emit('close') from the DataConsumer at place from: every
\* subscriber of the event is called
EventEmitter_emit(heap, ref, from) ==
    {[subscriber |-> heap[ref].close[i].subscriber,
      on |-> heap[ref].close[i].on,
      from |-> from] : i \in 1 .. Len(heap[ref].close)}

\* the emitter dc.observer gives for the DataConsumer at place h
DataConsumer_observerRef(objects, h) == DataConsumer_observer(objects[h])

\* DataConsumer.close and DataConsumer.transportClosed : the flag is
\* assigned on the object, then self._destroyTrack() is not an attribute
DataConsumer_closeObject(objects, h) ==
    IF DataConsumer_closed(objects[h])
    THEN [err |-> NoError, objects |-> objects]
    ELSE [err |-> AttributeError,
          objects |-> [objects EXCEPT ![h].closed = Some(TRUE)]]

\* DataConsumer.onDataChannelClose : the flag, then '@close' on the object
\* and 'close' on the observer; gives the objects and the subscriber calls
DataConsumer_onDataChannelClose(objects, heap, h) ==
    IF DataConsumer_closed(objects[h])
    THEN [objects |-> objects, called |-> {}]
    ELSE [objects |-> [objects EXCEPT ![h].closed = Some(TRUE)],
          called |-> EventEmitter_emit(heap,
                                       DataConsumer_observerRef(objects, h), h)]

Subscribers == {"f", "g"}

dataConsumerVars == <<remoteSdp, handler, pc, transport, device>>

InitDataConsumers ==
    /\ remoteSdp = RemoteSdp_init(TransportIceParameters, TRUE)
    /\ handler = AiortcHandler_init("recv")
    /\ pc = RTCPeerConnection_init
    /\ transport = Transport_init("recv", {"connect"}, TRUE,
                                  CanProduceByKind, ExtendedRtpCapabilities)
    /\ handles = <<>>
    /\ tasks = {}
    /\ device = Device_init
    \* the emitter the class body has built
    /\ result = [op |-> None, arg |-> None, err |-> NoError,
                 val |-> <<EventEmitter>>]

\* DataConsumer(id=..., ...)
NewDataConsumer(id) ==
    /\ Len(handles) < MaxDataConsumers
    /\ handles' = Append(handles, DataConsumer_init(id))
    /\ UNCHANGED <<tasks, result>>
    /\ UNCHANGED dataConsumerVars

\* dataConsumer.observer.on('close', subscriber)
ObserverOn(h, subscriber) ==
    LET ref == DataConsumer_observerRef(handles, h)
    IN  /\ Len(result.val[ref].close) < MaxListeners
        /\ result' = [result EXCEPT
                         !.val = EventEmitter_on(@, ref,
                                     [subscriber |-> subscriber, on |-> h])]
        /\ UNCHANGED <<handles, tasks>>
        /\ UNCHANGED dataConsumerVars

\* dataConsumer.close()
DataConsumerClose(h) ==
    LET r == DataConsumer_closeObject(handles, h)
    IN  /\ handles' = r.objects
        /\ result' = [result EXCEPT !.op = "close", !.arg = h, !.err = r.err]
        /\ UNCHANGED tasks
        /\ UNCHANGED dataConsumerVars

\* dataConsumer.transportClosed()
DataConsumerTransportClosed(h) ==
    LET r == DataConsumer_closeObject(handles, h)
    IN  /\ handles' = r.objects
        /\ result' = [result EXCEPT !.op = "transportClosed", !.arg = h,
                                    !.err = r.err]
        /\ UNCHANGED tasks
        /\ UNCHANGED dataConsumerVars

\* the data channel of the DataConsumer emits 'close'
OnDataChannelClose(h) ==
    LET r == DataConsumer_onDataChannelClose(handles, result.val, h)
    IN  /\ handles' = r.objects
        /\ tasks' = tasks \cup r.called
        /\ result' = [result EXCEPT !.op = "onDataChannelClose", !.arg = h,
                                    !.err = NoError]
        /\ UNCHANGED dataConsumerVars

NextDataConsumers ==
    \/ \E id \in {"dc"} : NewDataConsumer(id)
    \/ \E h \in 1 .. Len(handles), subscriber \in Subscribers :
           ObserverOn(h, subscriber)
    \/ \E h \in 1 .. Len(handles) : DataConsumerClose(h)
    \/ \E h \in 1 .. Len(handles) : DataConsumerTransportClosed(h)
    \/ \E h \in 1 .. Len(handles) : OnDataChannelClose(h)

SpecDataConsumers == InitDataConsumers /\ [][NextDataConsumers]_vars

\* the closed flags of the other DataConsumers are as they were
OthersKeepClosed(h) ==
    \A other \in (1 .. Len(handles)) \ {h} :
        DataConsumer_closed(handles'[other]) = DataConsumer_closed(handles[other])

\* C30 (first part): a notification emitted on one DataConsumer's observer
\* is only delivered to subscribers registered on that DataConsumer's
\* observer.
C30_NotificationsStayOnTheirObserver == \A call \in tasks : call.on = call.from

\* C30 (second part): closing one DataConsumer, by close(),
\* transportClosed() or the close of its data channel, never changes
\* another's closed flag.
C30_CloseLeavesOtherFlags ==
    [][\A h \in 1 .. Len(handles) :
           DataConsumer_closed(handles'[h]) # DataConsumer_closed(handles[h])
               => OthersKeepClosed(h)]_vars

\* C30: observer channels and closed flags are per handle: a notification
\* emitted on one DataConsumer's observer is never delivered to a subscriber
\* registered on another DataConsumer's observer, and closing one
\* DataConsumer never changes another's closed flag.
C30_ObserversAndFlagsPerHandle ==
    /\ []C30_NotificationsStayOnTheirObserver
    /\ C30_CloseLeavesOtherFlags

\* one DataConsumer is closed and another is open
C30_OneClosedOneOpen ==
    \E h \in 1 .. Len(handles), other \in 1 .. Len(handles) :
        /\ DataConsumer_closed(handles[h])
        /\ ~DataConsumer_closed(handles[other])

(***************************************************************************)
(* sdp_transform.py : the line grammar, parse and write.  A line is its    *)
(* field letter and its content; the content is a sequence of tokens, the  *)
(* separators of the patterns and formats (space, ':', '/') being left     *)
(* out.  A value of a parsed record is an int or a string of tokens.       *)
(***************************************************************************)
Numerals == <<"0", "1", "2", "3", "4", "5", "6", "7", "8", "9">>

\* int(v) succeeds
IsNumeral(token) == token \in Range(Numerals)
\* int(v)
IntOf(token) == (CHOOSE i \in 1 .. Len(Numerals) : Numerals[i] = token) - 1

\* the values of a record: a Python int, or a str as its tokens
IntValue(n) == [t |-> "int", n |-> n, s |-> <<>>]
StrValue(tokens) == [t |-> "str", n |-> 0, s |-> tokens]

\* toIntIfInt
toIntIfInt(v) ==
    IF Len(v) = 1 /\ IsNumeral(v[1]) THEN IntValue(IntOf(v[1])) ELSE StrValue(v)

\* the truth value Python gives a value: 0 and '' are false
TruthyValue(value) == IF value.t = "int" THEN value.n # 0 ELSE value.s # <<>>

\* str(value), as tokens
StrTokens(value) ==
    IF value.t = "int" THEN <<Numerals[value.n + 1]>> ELSE value.s

\* dict.get(key) is not None ; a dict is a function on the keys it has
Has(dict, key) == key \in DOMAIN dict
\* the truth value of dict.get(key)
GetTruthy(dict, key) == Has(dict, key) /\ TruthyValue(dict[key])

\* the parts of a pattern: a token that must be one of alts (any token when
\* alts is empty), made of digits when digits is set, captured as group cap
\* (0: not captured); rest takes the remaining tokens, as (.*) does
Lit(token) == [alts |-> {token}, digits |-> FALSE, rest |-> FALSE, cap |-> 0]
Cap(k) == [alts |-> {}, digits |-> FALSE, rest |-> FALSE, cap |-> k]
Digits(k) == [alts |-> {}, digits |-> TRUE, rest |-> FALSE, cap |-> k]
OneOf(k, alts) == [alts |-> alts, digits |-> FALSE, rest |-> FALSE, cap |-> k]
Rest(k) == [alts |-> {}, digits |-> FALSE, rest |-> TRUE, cap |-> k]

\* a run of parts, and a run in (?: ... )?
Must(items) == [optional |-> FALSE, items |-> items]
May(items) == [optional |-> TRUE, items |-> items]

ItemMatches(item, token) ==
    /\ item.alts = {} \/ token \in item.alts
    /\ item.digits => IsNumeral(token)

\* the parts of one run matched from token p on; a group that took part in
\* the match holds the tokens it captured
RECURSIVE MatchItems(_, _, _, _)
MatchItems(items, tokens, p, groups) ==
    IF items = <<>> THEN [ok |-> TRUE, p |-> p, groups |-> groups]
    ELSE LET item == Head(items)
         IN  IF item.rest
             THEN MatchItems(Tail(items), tokens, Len(tokens) + 1,
                      [groups EXCEPT ![item.cap] =
                           Some(SubSeq(tokens, p, Len(tokens)))])
             ELSE IF p > Len(tokens) \/ ~ItemMatches(item, tokens[p])
             THEN [ok |-> FALSE, p |-> p, groups |-> groups]
             ELSE MatchItems(Tail(items), tokens, p + 1,
                      IF item.cap = 0 THEN groups
                      ELSE [groups EXCEPT ![item.cap] = Some(<<tokens[p]>>)])

\* the runs of a pattern in order: an optional run that does not match is
\* skipped and its groups stay None
RECURSIVE MatchSegments(_, _, _, _)
MatchSegments(segments, tokens, p, groups) ==
    IF segments = <<>> THEN [ok |-> TRUE, groups |-> groups]
    ELSE LET r == MatchItems(Head(segments).items, tokens, p, groups)
         IN  IF r.ok THEN MatchSegments(Tail(segments), tokens, r.p, r.groups)
             ELSE IF Head(segments).optional
             THEN MatchSegments(Tail(segments), tokens, p, groups)
             ELSE [ok |-> FALSE, groups |-> groups]

\* re.match(obj['reg'], content) ; match[i] is groups[i], Nothing for None
re_match(obj, content) ==
    MatchSegments(obj.reg, content, 1, [i \in 1 .. obj.groups |-> Nothing])

\* a rule of the grammar; name and push are None when the rule has none,
\* names is empty when it has none; format is the format string as
\* literals and placeholders, or Callable for a lambda
Callable == <<"callable">>
Rule(name, push, names, groups, reg, format) ==
    [name |-> name, push |-> push, names |-> names, groups |-> groups,
     reg |-> reg, format |-> format]

\* the rules of the grammar for the lines of the corpus, in the order of the
\* source; a rule without 'reg' has (.*) and one without 'format' has '%s'
grammar ==
    [v |-> <<Rule("version", None, <<>>, 1, <<Must(<<Digits(1)>>)>>, <<"%s">>)>>,
     s |-> <<Rule("name", None, <<>>, 1, <<Must(<<Rest(1)>>)>>, <<"%s">>)>>,
     t |-> <<Rule("timing", None, <<"start", "stop">>, 2,
                  <<Must(<<Digits(1), Digits(2)>>)>>, <<"%d", "%d">>)>>,
     c |-> <<Rule("connection", None, <<"version", "ip">>, 2,
                  <<Must(<<Lit("IN"), Lit("IP"), Digits(1), Cap(2)>>)>>,
                  <<"IN", "IP", "%d", "%s">>)>>,
     m |-> <<Rule(None, None, <<"type", "port", "protocol", "payloads">>, 4,
                  <<Must(<<Cap(1), Digits(2), Cap(3)>>), May(<<Rest(4)>>)>>,
                  <<"%s", "%d", "%s", "%s">>)>>,
     a |-> <<Rule(None, "rtp", <<"payload", "codec", "rate", "encoding">>, 4,
                  <<Must(<<Lit("rtpmap"), Digits(1), Cap(2)>>),
                    May(<<Digits(3)>>), May(<<Cap(4)>>)>>,
                  Callable),
             Rule("rtcp", None, <<"port", "netType", "ipVer", "address">>, 4,
                  <<Must(<<Lit("rtcp"), Digits(1)>>),
                    May(<<Cap(2), Lit("IP"), Digits(3), Cap(4)>>)>>,
                  Callable),
             Rule("mid", None, <<>>, 1,
                  <<Must(<<Lit("mid"), Cap(1)>>)>>, <<"mid", "%s">>),
             Rule("direction", None, <<>>, 1,
                  <<Must(<<OneOf(1, {"sendrecv", "recvonly", "sendonly",
                                     "inactive"})>>)>>,
                  <<"%s">>),
             Rule(None, "candidates",
                  <<"foundation", "component", "transport", "priority", "ip",
                    "port", "type", "raddr", "rport", "tcptype", "generation",
                    "network-id", "network-cost">>, 13,
                  <<Must(<<Lit("candidate"), Cap(1), Digits(2), Cap(3),
                           Digits(4), Cap(5), Digits(6), Lit("typ"), Cap(7)>>),
                    May(<<Lit("raddr"), Cap(8), Lit("rport"), Digits(9)>>),
                    May(<<Lit("tcpfield"), Cap(10)>>),
                    May(<<Lit("generation"), Digits(11)>>),
                    May(<<Lit("network-id"), Digits(12)>>),
                    May(<<Lit("network-cost"), Digits(13)>>)>>,
                  Callable),
             Rule(None, "groups", <<"type", "mids">>, 2,
                  <<Must(<<Lit("group"), Cap(1), Rest(2)>>)>>,
                  <<"group", "%s", "%s">>),
             Rule("rtcpMux", None, <<>>, 1,
                  <<Must(<<OneOf(1, {"rtcp-mux"})>>)>>, <<"%s">>),
             Rule("sctpmap", None, <<"sctpmapNumber", "app", "maxMessageSize">>, 3,
                  <<Must(<<Lit("sctpmap"), Cap(1), Cap(2)>>), May(<<Cap(3)>>)>>,
                  Callable),
             Rule("simulcast", None, <<"dir1", "list1", "dir2", "list2">>, 4,
                  <<Must(<<Lit("simulcast"), OneOf(1, {"send", "recv"}), Cap(2)>>),
                    May(<<OneOf(3, {"send", "recv"}), Cap(4)>>)>>,
                  Callable),
             Rule("sctpPort", None, <<>>, 1,
                  <<Must(<<Lit("sctp-port"), Digits(1)>>)>>,
                  <<"sctp-port", "%s">>),
             Rule("maxMessageSize", None, <<>>, 1,
                  <<Must(<<Lit("max-message-size"), Digits(1)>>)>>,
                  <<"max-message-size", "%s">>),
             Rule(None, "invalid", <<"value">>, 1,
                  <<Must(<<Rest(1)>>)>>, <<"%s">>)>>]

\* the part of a callable format that is there when o.get(key) is true
If(o, key, format) == IF GetTruthy(o, key) THEN format ELSE <<>>

\* obj['format'](o) of the rules whose format is a lambda
CallFormat(obj, o) ==
    CASE obj.push = "rtp" ->
             IF GetTruthy(o, "encoding") THEN <<"rtpmap", "%d", "%s", "%s", "%s">>
             ELSE IF GetTruthy(o, "rate") THEN <<"rtpmap", "%d", "%s", "%s">>
             ELSE <<"rtpmap", "%d", "%s">>
      [] obj.name = "rtcp" ->
             IF GetTruthy(o, "address") THEN <<"rtcp", "%d", "%s", "IP", "%d", "%s">>
             ELSE <<"rtcp", "%d">>
      [] obj.push = "candidates" ->
             <<"candidate", "%s", "%d", "%s", "%d", "%s", "%d", "typ", "%s">>
             \o If(o, "raddr", <<"raddr", "%s", "rport", "%d">>)
             \o If(o, "tcptype", <<"tcpfield", "%s">>)
             \o If(o, "generation", <<"generation", "%d">>)
             \o If(o, "network-id", <<"network-id", "%d">>)
             \o If(o, "network-cost", <<"network-cost", "%d">>)
      [] obj.name = "sctpmap" ->
             IF GetTruthy(o, "maxMessageSize") THEN <<"sctpmap", "%s", "%s", "%s">>
             ELSE <<"sctpmap", "%s", "%s">>
      [] obj.name = "simulcast" ->
             <<"simulcast", "%s", "%s">> \o If(o, "dir2", <<"%s", "%s">>)

\* attachProperties, the loop over names from names[i] on
RECURSIVE AttachNames(_, _, _, _)
AttachNames(match, location, names, i) ==
    IF i > Len(names) THEN location
    ELSE AttachNames(match,
                     IF match[i] # Nothing
                     THEN DictPut(location, names[i], toIntIfInt(match[i][1]))
                     ELSE location,
                     names, i + 1)

\* attachProperties
attachProperties(match, location, names, rawName) ==
    IF rawName # None /\ names = <<>>
    THEN DictPut(location, rawName, toIntIfInt(match[1][1]))
    ELSE AttachNames(match, location, names, 1)

\* `not location.get(key)` for a key that holds a list or a dict
Blank(location, key) == ~Has(location, key) \/ DOMAIN location[key] = {}

\* parseReg ; gives location as the call leaves it
parseReg(obj, location, content) ==
    LET needsBlank == obj.name # None /\ obj.names # <<>>
        blanked ==
            IF obj.push # None
            THEN IF Blank(location, obj.push)
                 THEN DictPut(location, obj.push, <<>>) ELSE location
            ELSE IF needsBlank /\ Blank(location, obj.name)
                 THEN DictPut(location, obj.name, EmptyDict) ELSE location
        keyLocation ==
            IF obj.push # None THEN EmptyDict
            ELSE IF needsBlank THEN blanked[obj.name] ELSE blanked
        attached == attachProperties(re_match(obj, content).groups,
                                     keyLocation, obj.names, obj.name)
    IN  IF obj.push # None
        THEN [blanked EXCEPT ![obj.push] = Append(@, attached)]
        ELSE IF needsBlank THEN [blanked EXCEPT ![obj.name] = attached]
        ELSE attached

\* the first rule of rules, from rules[i] on, whose pattern matches: 0 when
\* there is none
RECURSIVE FirstMatch(_, _, _)
FirstMatch(rules, content, i) ==
    IF i > Len(rules) THEN 0
    ELSE IF re_match(rules[i], content).ok THEN i
    ELSE FirstMatch(rules, content, i + 1)

\* the new dict of an m= line
NewMedia == [rtp |-> <<>>, fmtp |-> <<>>]

\* one line parsed into location
ParseLine(location, line) ==
    LET rules == grammar[line.field]
        i == FirstMatch(rules, line.content, 1)
    IN  IF i = 0 THEN location ELSE parseReg(rules[i], location, line.content)

\* parse, from lines[i] on: location is session until the first m= line,
\* then the dict of the last m= line
RECURSIVE ParseFrom(_, _, _, _)
ParseFrom(lines, i, session, media) ==
    IF i > Len(lines) THEN [session |-> session, media |-> media]
    ELSE LET l == lines[i]
             opened == IF l.field = "m" THEN Append(media, NewMedia) ELSE media
         IN  IF opened = <<>>
             THEN ParseFrom(lines, i + 1, ParseLine(session, l), opened)
             ELSE ParseFrom(lines, i + 1, session,
                            [opened EXCEPT ![Len(opened)] = ParseLine(@, l)])

\* parse(sdp) ; session['media'] is the field media of the result
parse(sdp) == ParseFrom(sdp, 1, EmptyDict, <<>>)

\* the placeholders of a format string
Placeholders == {"%d", "%s"}
CountPlaceholders(format) ==
    Cardinality({i \in 1 .. Len(format) : format[i] \in Placeholders})

\* string % args, once the number of values is the number of placeholders:
\* a literal is copied, a placeholder takes the next value, and %d raises
\* for a str
RECURSIVE Interpolate(_, _)
Interpolate(format, args) ==
    IF format = <<>> THEN [err |-> NoError, tokens |-> <<>>]
    ELSE IF Head(format) \notin Placeholders
    THEN LET r == Interpolate(Tail(format), args)
         IN  [r EXCEPT !.tokens = <<Head(format)>> \o @]
    ELSE IF Head(format) = "%d" /\ Head(args).t = "str"
    THEN [err |-> TypeError, tokens |-> <<>>]
    ELSE LET r == Interpolate(Tail(format), Tail(args))
         IN  [r EXCEPT !.tokens = StrTokens(Head(args)) \o @]

\* string % tuple(args)
Percent(format, args) ==
    IF CountPlaceholders(format) # Len(args)
    THEN [err |-> TypeError, tokens |-> <<>>]
    ELSE Interpolate(format, args)

\* the values of the names of location that are not None, in order
RECURSIVE PresentArgs(_, _)
PresentArgs(names, location) ==
    IF names = <<>> THEN <<>>
    ELSE (IF Has(location, Head(names)) THEN <<location[Head(names)]>> ELSE <<>>)
         \o PresentArgs(Tail(names), location)

\* makeLine ; gives the line, or the error raised
makeLine(field, obj, location) ==
    LET format == IF obj.format = Callable
                  THEN CallFormat(obj, IF obj.push # None THEN location
                                       ELSE location[obj.name])
                  ELSE obj.format
        missing == obj.names # <<>> /\ obj.name # None
                   /\ \E i \in 1 .. Len(obj.names) :
                          ~Has(location[obj.name], obj.names[i])
        args == IF obj.names # <<>>
                THEN IF obj.name # None
                     THEN [i \in 1 .. Len(obj.names) |->
                               location[obj.name][obj.names[i]]]
                     ELSE PresentArgs(obj.names, location)
                ELSE <<location[obj.name]>>
        r == Percent(format, args)
    IN  IF missing
        THEN [err |-> KeyError, line |-> [field |-> field, content |-> <<>>]]
        ELSE [err |-> r.err, line |-> [field |-> field, content |-> r.tokens]]

\* the lines written so far and the first error raised
NoLines == [err |-> NoError, sdp |-> <<>>]
AddLine(w, made) ==
    IF w.err # NoError THEN w
    ELSE IF made.err # NoError THEN [w EXCEPT !.err = made.err]
    ELSE [w EXCEPT !.sdp = Append(@, made.line)]

\* `for el in location.get(obj['push'])`, from element i on
RECURSIVE WriteElements(_, _, _, _, _)
WriteElements(w, field, obj, elements, i) ==
    IF i > Len(elements) THEN w
    ELSE WriteElements(AddLine(w, makeLine(field, obj, elements[i])),
                       field, obj, elements, i + 1)

\* `for obj in grammar[field]`, from rule i on
RECURSIVE WriteRules(_, _, _, _)
WriteRules(w, field, location, i) ==
    IF i > Len(grammar[field]) THEN w
    ELSE LET obj == grammar[field][i]
         IN  WriteRules(
                 IF obj.name # None
                 THEN IF Has(location, obj.name)
                      THEN AddLine(w, makeLine(field, obj, location)) ELSE w
                 ELSE IF obj.push # None /\ Has(location, obj.push)
                 THEN WriteElements(w, field, obj, location[obj.push], 1)
                 ELSE w,
                 field, location, i + 1)

\* `for field in order`
RECURSIVE WriteFields(_, _, _)
WriteFields(w, order, location) ==
    IF order = <<>> THEN w
    ELSE WriteFields(WriteRules(w, Head(order), location, 1),
                     Tail(order), location)

\* the fields of defaultOuterOrder and defaultInnerOrder the grammar above
\* has rules for
defaultOuterOrder == <<"v", "s", "c", "t", "a">>
defaultInnerOrder == <<"c", "a">>

\* `for mLine in session.get('media', [])`, from section i on
RECURSIVE WriteMedia(_, _, _)
WriteMedia(w, media, i) ==
    IF i > Len(media) THEN w
    ELSE WriteMedia(
             WriteFields(AddLine(w, makeLine("m", grammar.m[1], media[i])),
                         defaultInnerOrder, media[i]),
             media, i + 1)

\* write(session) ; gives the lines, or the error raised
write(parsed) ==
    LET versioned == IF Has(parsed.session, "version") THEN parsed.session
                     ELSE DictPut(parsed.session, "version", IntValue(0))
        session == IF Has(versioned, "name") THEN versioned
                   ELSE DictPut(versioned, "name", StrValue(<<" ">>))
    IN  IF \E i \in 1 .. Len(parsed.media) : ~Has(parsed.media[i], "payloads")
        \* media.payloads = '' on a dict
        THEN [err |-> AttributeError, sdp |-> <<>>]
        ELSE WriteMedia(WriteFields(NoLines, defaultOuterOrder, session),
                        parsed.media, 1)

(***************************************************************************)
(* parse and write applied to session descriptions: result.arg is the      *)
(* text, result.val what parse, write and the second parse gave            *)
(***************************************************************************)
MaxAttributes == 2            \* attribute lines of the first media section

Line(field, content) == [field |-> field, content |-> content]

\* v=0, s=-, t=0 0, then a=group:BUNDLE with one mid or with two
SessionLineInputs ==
    {<<Line("v", <<"0">>), Line("s", <<"-">>), Line("t", <<"0", "0">>)>> \o group :
        group \in {<<>>, <<Line("a", <<"group", "BUNDLE", "0">>)>>,
                   <<Line("a", <<"group", "BUNDLE", "0", "1">>)>>}}

\* m=audio and m=video, m=application in the modern form (UDP/DTLS/SCTP
\* webrtc-datachannel) and in the legacy one (DTLS/SCTP with the port)
MediaLineInputs ==
    {Line("m", <<"audio", "9", "UDP/TLS/RTP/SAVPF", "8">>),
     Line("m", <<"video", "9", "UDP/TLS/RTP/SAVPF", "9", "7">>),
     Line("m", <<"application", "9", "UDP/DTLS/SCTP", "webrtc-datachannel">>),
     Line("m", <<"application", "9", "DTLS/SCTP", "5">>)}

\* a=candidate:... typ ... with the optional parts given
Candidate(type, optional) ==
    Line("a", <<"candidate", "0", "1", "udp", "2", "203.0.113.1", "9",
                "typ", type>> \o optional)

AttributeInputs ==
    {Line("a", <<"mid", "0">>),
     Line("a", <<"mid", "audio">>),
     Line("a", <<"rtpmap", "8", "opus", "4", "2">>),
     Line("a", <<"rtpmap", "9", "VP8", "9">>),
     Line("a", <<"rtcp", "9">>),
     Line("a", <<"rtcp", "9", "IN", "IP", "4", "0.0.0.0">>),
     Line("a", <<"sendrecv">>),
     Line("a", <<"rtcp-mux">>),
     Candidate("host", <<>>),
     Candidate("host", <<"generation", "0">>),
     Candidate("host", <<"generation", "1", "network-id", "3",
                         "network-cost", "1">>),
     Candidate("srflx", <<"raddr", "192.168.34.75", "rport", "9">>),
     Candidate("host", <<"tcpfield", "active">>),
     Line("a", <<"simulcast", "send", "1,2">>),
     Line("a", <<"simulcast", "send", "1,2", "recv", "3">>),
     Line("a", <<"sctpmap", "5", "webrtc-datachannel", "1">>),
     Line("a", <<"sctpmap", "5", "webrtc-datachannel">>),
     Line("a", <<"sctp-port", "5">>),
     Line("a", <<"max-message-size", "9">>),
     Line("a", <<"x-google-flag", "conference">>)}

\* a second section, of the video kind
SecondSectionInputs ==
    {<<>>,
     <<Line("m", <<"video", "9", "UDP/TLS/RTP/SAVPF", "9">>),
       Line("a", <<"mid", "1">>), Line("a", <<"recvonly">>)>>}

InitTransform ==
    /\ remoteSdp = RemoteSdp_init(TransportIceParameters, TRUE)
    /\ handler = AiortcHandler_init("send")
    /\ pc = RTCPeerConnection_init
    /\ transport = Transport_init("send", {}, FALSE, CanProduceByKind,
                                  ExtendedRtpCapabilities)
    /\ handles = <<>>
    /\ tasks = {}
    /\ device = Device_init
    /\ \E session \in SessionLineInputs, m \in MediaLineInputs,
          attributes \in SeqsUpTo(AttributeInputs, MaxAttributes),
          second \in SecondSectionInputs :
           result = [op |-> "text",
                     arg |-> session \o <<m>> \o attributes \o second,
                     err |-> NoError, val |-> Nothing]

\* parsed = sdp_transform.parse(text)
Parse ==
    /\ result.op = "text"
    /\ OrtcResult("parse", result.arg, NoError,
                  [parsed |-> parse(result.arg)])

\* written = sdp_transform.write(parsed)
Write ==
    /\ result.op = "parse"
    /\ LET w == write(result.val.parsed)
       IN  OrtcResult("write", result.arg, w.err,
                      [parsed |-> result.val.parsed, written |-> w.sdp])

\* sdp_transform.parse(written)
ParseWritten ==
    /\ result.op = "write"
    /\ result.err = NoError
    /\ OrtcResult("parseWritten", result.arg, NoError,
                  [parsed |-> result.val.parsed,
                   written |-> result.val.written,
                   reparsed |-> parse(result.val.written)])

NextTransform ==
    \/ Parse
    \/ Write
    \/ ParseWritten

SpecTransform == InitTransform /\ [][NextTransform]_vars

\* C31: for every well-formed session description x (audio, video and
\* application sections, BUNDLE, simulcast, modern and legacy SCTP forms),
\* write(parse(x)) succeeds and parse(write(parse(x))) equals parse(x).
C31_ParseWriteParse ==
    /\ result.op = "write" => result.err = NoError
    /\ result.op = "parseWritten" => result.val.reparsed = result.val.parsed

\* the rules of the RTCP line and of the candidate line
RtcpRule == grammar.a[2]
CandidateRule == grammar.a[5]

\* the optional values of a candidate and the word each is written after
OptionalWord ==
    [raddr |-> "raddr", rport |-> "rport", tcptype |-> "tcpfield",
     generation |-> "generation"] @@
    ("network-id" :> "network-id") @@ ("network-cost" :> "network-cost")

\* the line made for a record is made without error, and has the word of
\* an optional value exactly when the record has the value
WrittenAsPresent(made, record) ==
    /\ made.err = NoError
    /\ \A key \in DOMAIN OptionalWord :
           Has(record, key) <=> OptionalWord[key] \in Range(made.line.content)

\* C32: write emits an optional field (RTCP address, candidate raddr/rport,
\* tcptype, generation, network-id, network-cost) exactly when its value is
\* present in the record, including when that value is the integer 0, and
\* the values handed to the line format match its placeholders one to one,
\* so write never fails on a record that parse produced.
C32_OptionalFieldsWrittenWhenPresent ==
    /\ result.op = "parse" =>
           \A i \in 1 .. Len(result.val.parsed.media) :
               LET mLine == result.val.parsed.media[i]
               IN  /\ Has(mLine, "rtcp") =>
                          LET made == makeLine("a", RtcpRule, mLine)
                          IN  /\ made.err = NoError
                              /\ Has(mLine.rtcp, "address")
                                     <=> "IP" \in Range(made.line.content)
                   /\ Has(mLine, "candidates") =>
                          \A k \in 1 .. Len(mLine.candidates) :
                              WrittenAsPresent(
                                  makeLine("a", CandidateRule, mLine.candidates[k]),
                                  mLine.candidates[k])
    /\ result.op = "write" => result.err = NoError

(***************************************************************************)
(* The session builder when send() never names the mid of another slot     *)
(***************************************************************************)
\* send(offerMediaDict, reuseMid) names a mid that no section has, or the
\* mid of the slot it replaces
NamesOwnSlot(s, mid, reuseMid) ==
    \/ mid \notin DOMAIN s.midToIndex
    \/ reuseMid = None
    \/ /\ reuseMid \in DOMAIN s.midToIndex
       /\ s.mediaSections[s.midToIndex[reuseMid] + 1].mid = mid

NamedSend(mid, kind, reuseMid) ==
    /\ NamesOwnSlot(remoteSdp, mid, reuseMid)
    /\ SdpSend(mid, kind, reuseMid)

NextNamed ==
    \/ \E mid \in MidInputs, kind \in KindInputs, reuseMid \in MidInputs \cup {None} :
           NamedSend(mid, kind, reuseMid)
    \/ \E mid \in RecvMids, kind \in KindInputs : SdpReceive(mid, kind)
    \/ \E mid \in NamedMids : SdpDisableMediaSection(mid)
    \/ \E mid \in NamedMids : SdpCloseMediaSection(mid)
    \/ \E mid \in MidInputs : SdpSendSctpAssociation(mid)
    \/ SdpReceiveSctpAssociation

SpecNamed == InitSdp /\ [][NextNamed]_vars

\* the mids of the sections
SectionMids(s) == {SectionAt(s, i).mid : i \in Indices(s)}

AppendsUsedMid ==
    /\ Len(remoteSdp'.mediaSections) = Len(remoteSdp.mediaSections) + 1
    /\ remoteSdp'.mediaSections[Len(remoteSdp'.mediaSections)].mid
           \in DOMAIN remoteSdp.midToIndex

RegistriesEmpty(t) ==
    /\ t.producers = <<>>
    /\ t.consumers = <<>>
    /\ t.dataProducers = <<>>
    /\ t.dataConsumers = <<>>

\* C34: Transport.close() on an open Transport, with any mix of registered
\* producers, consumers, data producers and data consumers, marks the
\* Transport closed, closes the handler, marks every registered handle
\* closed, empties the four registries and emits the Transport observer
\* 'close' exactly once; close() on a closed Transport changes nothing.
C34_CloseClosesEveryHandleAndNotifiesOnce ==
    [][/\ (Close /\ ~transport.closed)
             => /\ ~Failed(Transport_close(World))
                /\ transport'.closed
                /\ pc'.closed
                /\ \A h \in Registered(transport) : handles'[h].closed
                /\ RegistriesEmpty(transport')
                /\ transport'.observerClose = transport.observerClose + 1
                /\ transport'.observerClose = 1
       /\ transport.closed => Transport_close(World).w = World]_vars

\* every section of the session with this mid is closed, or only disabled
\* when the mid is the first-registered one
SlotFreed(s, mid) ==
    \A i \in Indices(s) :
        SectionAt(s, i).mid = mid
            => IF mid = s.firstMid
               THEN SectionAt(s, i).direction = "inactive"
               ELSE MediaSection_closed(SectionAt(s, i))

\* handle h of one of these classes is open on an open Transport and the
\* step is its close() with no failure in the native engine
ClosesOpenHandle(h, classes) ==
    /\ handles[h].cls \in classes
    /\ ~handles[h].closed
    /\ ~transport.closed
    /\ HandleClose(h, None)

\* C35: when a Producer or a Consumer is closed on an open Transport, it is
\* removed from the Transport's registry and the media section with its mid
\* becomes closed (disabled, if it is the first-registered mid), so that the
\* slot is free for a later produce/consume.
C35_ClosedHandleFreesItsSlot ==
    [][\A h \in 1 .. Len(handles) :
           ClosesOpenHandle(h, {"Producer", "Consumer"})
               => /\ h \notin Registered(transport')
                  /\ SlotFreed(remoteSdp', handles[h].localId)]_vars

(***************************************************************************)
(* The 'connect' subscriber that fails                                     *)
(***************************************************************************)
\* Transport._handleHandler on_connect hands the parameters to the
\* application with self.emit('connect', ...), which is not awaited: a
\* subscriber written as a function runs, and raises, inside emit; one
\* written as a coroutine function (as in examples/ and tests/) is scheduled
\* on the event loop and raises after on_connect has returned, which no step
\* of the call sees
ConnectSubscribers == {"def", "async def"}
SubscriberRaises(form) == IF form = "def" THEN "connect" ELSE "connect task"

\* the call emitted 'connect'
EmittedConnect(r) == r.w.transport.connectEmitted = transport.connectEmitted + 1

\* the call failed and left the handler not ready
FailedNotReady(r) == Failed(r) /\ ~r.w.handler.transportReady

\* every call that emits 'connect' to a subscriber of this form that fails
\* fails itself and leaves the handler not ready
ConnectFailureFailsTheCall(form) ==
    LET fail == SubscriberRaises(form)
    IN  /\ \A track \in TrackInputs, id \in IdInputs :
            LET r == Transport_produce(World, track, id, fail)
            IN  EmittedConnect(r) => FailedNotReady(r)
        /\ \A id \in IdInputs, kind \in MediaKinds, mid \in ConsumeMids,
              codecs \in CodecInputs :
            LET r == Transport_consume(World, id, kind, mid, codecs, fail, None)
            IN  EmittedConnect(r) => FailedNotReady(r)
        /\ \A id \in IdInputs :
            LET r == Transport_produceData(World, id, DefaultDataOptions, fail)
            IN  EmittedConnect(r) => FailedNotReady(r)
        /\ \A id \in IdInputs :
            LET r == Transport_consumeData(World, id, fail)
            IN  EmittedConnect(r) => FailedNotReady(r)

\* C36: if the 'connect' subscriber fails, the produce / consume /
\* produceData / consumeData call that emitted 'connect' fails and the
\* handler is not marked ready, so that the next call emits 'connect' again.
C36_FailedConnectFailsTheCall ==
    "connect" \in transport.listeners
        => \A form \in ConnectSubscribers : ConnectFailureFailsTheCall(form)

\* C37: produce() on a Transport that has a 'connect' subscriber but no
\* 'produce' subscriber is rejected before the handler is invoked: no
\* transceiver is added, no section is added to the session builder and no
\* handle is registered.
C37_NoProduceSubscriberFailsBeforeHandler ==
    ("connect" \in transport.listeners /\ "produce" \notin transport.listeners)
    => \A track \in TrackInputs, id \in IdInputs, fail \in SendFails :
           FailsUntouched(Transport_produce(World, track, id, fail))

(***************************************************************************)
(* producer.py, consumer.py : pause() and resume()                         *)
(***************************************************************************)
MaxPausables == 2          \* Producers and Consumers of the model
MaxNotifications == 2      \* observer 'pause' / 'resume' notifications counted

\* Producer.__init__ : the attributes it assigns; listeners holds the
\* '@replacetrack' listener of Transport._handleProducer
Producer_init(disableTrackOnPause, zeroRtpOnPause) ==
    [cls |-> "Producer",
     attrs |-> {"_closed", "_observer", "_track", "_paused",
                "_disableTrackOnPause", "_zeroRtpOnPause"},
     closed |-> FALSE, paused |-> FALSE,
     disableTrackOnPause |-> disableTrackOnPause,
     zeroRtpOnPause |-> zeroRtpOnPause,
     observerPause |-> 0, observerResume |-> 0, observerClose |-> 0]

\* Consumer.__init__ : it assigns no _disableTrackOnPause (the two fields
\* of the record that stand for absent attributes are never read)
Consumer_init ==
    [cls |-> "Consumer",
     attrs |-> {"_closed", "_observer", "_track", "_paused"},
     closed |-> FALSE, paused |-> FALSE,
     disableTrackOnPause |-> FALSE, zeroRtpOnPause |-> FALSE,
     observerPause |-> 0, observerResume |-> 0, observerClose |-> 0]

PauseResult(err, o) == [err |-> err, o |-> o]

\* `if self._track and self._disableTrackOnPause: pass` : the track is set,
\* so the second attribute is looked up
TrackAndDisableTrackOnPause(o) ==
    IF "_disableTrackOnPause" \in o.attrs THEN NoError ELSE AttributeError

\* `if self._zeroRtpOnPause: self.emit('@replacetrack')` : the listener of
\* Transport._handleProducer is `async def on_replacetrack(track)` and is
\* called without its argument
EmitReplaceTrack(o) ==
    IF o.zeroRtpOnPause THEN TypeError ELSE NoError

\* Producer.pause / resume and Consumer.pause / resume : the closed check,
\* the flag, the track test, (Producer) the '@replacetrack' emission, the
\* observer notification
SetPaused(o, paused) ==
    IF o.closed THEN PauseResult(NoError, o)
    ELSE LET o1 == [o EXCEPT !.paused = paused]
         IN  IF TrackAndDisableTrackOnPause(o1) # NoError
             THEN PauseResult(TrackAndDisableTrackOnPause(o1), o1)
             ELSE IF o.cls = "Producer" /\ EmitReplaceTrack(o1) # NoError
             THEN PauseResult(EmitReplaceTrack(o1), o1)
             ELSE PauseResult(NoError,
                      IF paused THEN [o1 EXCEPT !.observerPause = @ + 1]
                      ELSE [o1 EXCEPT !.observerResume = @ + 1])

Producer_pause(o) == SetPaused(o, TRUE)
Producer_resume(o) == SetPaused(o, FALSE)
Consumer_pause(o) == SetPaused(o, TRUE)
Consumer_resume(o) == SetPaused(o, FALSE)

\* transportClosed() of a Producer or a Consumer
Pausable_transportClosed(o) ==
    IF o.closed THEN o
    ELSE [o EXCEPT !.closed = TRUE, !.observerClose = @ + 1]

InitPause ==
    /\ remoteSdp = RemoteSdp_init(TransportIceParameters, TRUE)
    /\ handler = AiortcHandler_init("send")
    /\ pc = RTCPeerConnection_init
    /\ transport = Transport_init("send", {"connect", "produce"}, FALSE,
                                  CanProduceByKind, ExtendedRtpCapabilities)
    /\ handles = <<>>
    /\ tasks = {}
    /\ device = Device_init
    /\ result = [op |-> None, arg |-> 0, err |-> NoError, val |-> Nothing]

\* the Transport builds a Producer with the options of produce()
NewProducer(disableTrackOnPause, zeroRtpOnPause) ==
    /\ Len(handles) < MaxPausables
    /\ handles' = Append(handles, Producer_init(disableTrackOnPause, zeroRtpOnPause))
    /\ result' = [result EXCEPT !.op = "new", !.arg = Len(handles) + 1,
                                !.err = NoError]
    /\ UNCHANGED tasks
    /\ UNCHANGED dataConsumerVars

\* the Transport builds a Consumer
NewConsumer ==
    /\ Len(handles) < MaxPausables
    /\ handles' = Append(handles, Consumer_init)
    /\ result' = [result EXCEPT !.op = "new", !.arg = Len(handles) + 1,
                                !.err = NoError]
    /\ UNCHANGED tasks
    /\ UNCHANGED dataConsumerVars

\* the application calls pause() on handle h
Pause(h) ==
    LET r == IF handles[h].cls = "Producer" THEN Producer_pause(handles[h])
             ELSE Consumer_pause(handles[h])
    IN  /\ r.o.observerPause <= MaxNotifications
        /\ handles' = [handles EXCEPT ![h] = r.o]
        /\ result' = [result EXCEPT !.op = "pause", !.arg = h, !.err = r.err]
        /\ UNCHANGED tasks
        /\ UNCHANGED dataConsumerVars

\* the application calls resume() on handle h
Resume38(h) ==
    LET r == IF handles[h].cls = "Producer" THEN Producer_resume(handles[h])
             ELSE Consumer_resume(handles[h])
    IN  /\ r.o.observerResume <= MaxNotifications
        /\ handles' = [handles EXCEPT ![h] = r.o]
        /\ result' = [result EXCEPT !.op = "resume", !.arg = h, !.err = r.err]
        /\ UNCHANGED tasks
        /\ UNCHANGED dataConsumerVars

\* the Transport closes and tells handle h
PausableTransportClosed(h) ==
    /\ handles' = [handles EXCEPT ![h] = Pausable_transportClosed(@)]
    /\ result' = [result EXCEPT !.op = "transportClosed", !.arg = h,
                                !.err = NoError]
    /\ UNCHANGED tasks
    /\ UNCHANGED dataConsumerVars

NextPause ==
    \/ \E disableTrackOnPause \in BOOLEAN, zeroRtpOnPause \in BOOLEAN :
           NewProducer(disableTrackOnPause, zeroRtpOnPause)
    \/ NewConsumer
    \/ \E h \in 1 .. Len(handles) : Pause(h)
    \/ \E h \in 1 .. Len(handles) : Resume38(h)
    \/ \E h \in 1 .. Len(handles) : PausableTransportClosed(h)

SpecPause == InitPause /\ [][NextPause]_vars

\* C38: pause() on an open Producer or Consumer sets paused to true and
\* emits exactly one observer 'pause' notification, resume() sets paused to
\* false and emits exactly one observer 'resume' notification, both without
\* error; on a closed handle neither changes paused nor emits anything.
C38_PauseAndResumeNotifyOnce ==
    [][\A h \in 1 .. Len(handles) :
          /\ (Pause(h) /\ ~handles[h].closed)
                => /\ result'.err = NoError
                   /\ handles'[h].paused
                   /\ handles'[h].observerPause = handles[h].observerPause + 1
                   /\ handles'[h].observerResume = handles[h].observerResume
          /\ (Resume38(h) /\ ~handles[h].closed)
                => /\ result'.err = NoError
                   /\ ~handles'[h].paused
                   /\ handles'[h].observerResume = handles[h].observerResume + 1
                   /\ handles'[h].observerPause = handles[h].observerPause
          /\ ((Pause(h) \/ Resume38(h)) /\ handles[h].closed)
                => /\ result'.err = NoError
                   /\ handles'[h] = handles[h]]_vars

(***************************************************************************)
(* One sending Transport on which every call is a produceData() that       *)
(* succeeds, or the close() of one of its DataProducers                    *)
(***************************************************************************)
MaxNewCalls == 5           \* produceData() calls made after the initial state
MaxClosable == 4           \* the first DataProducers may be closed

\* the produceData() calls made before the initial state: none, or all but
\* two of the stream ids
EarlierCalls == {0, SctpNumStreams - 2}

\* the Transport after n more produceData() calls that succeeded; the
\* server names each DataProducer after the number of its call (the calls
\* are made half by half to keep the evaluation shallow)
RECURSIVE AfterProduceData(_, _)
AfterProduceData(w, n) ==
    IF Len(w.handles) >= 0 /\ n = 0 THEN w
    ELSE IF n = 1
    THEN [Transport_produceData(w, ToString(Len(w.handles) + 1),
                                DefaultDataOptions, None).w
             EXCEPT !.trace = <<>>]
    ELSE AfterProduceData(AfterProduceData(w, n \div 2), n - (n \div 2))

NewSendingTransport ==
    [sdp |-> RemoteSdp_init(TransportIceParameters, TRUE),
     handler |-> AiortcHandler_init("send"),
     pc |-> RTCPeerConnection_init,
     transport |-> Transport_init("send", {"connect", "producedata"}, TRUE,
                                  CanProduceByKind, ExtendedRtpCapabilities),
     handles |-> <<>>, tasks |-> {}, trace |-> <<>>]

InitStreams ==
    \E n \in EarlierCalls :
        LET w == AfterProduceData(NewSendingTransport, n)
        IN  /\ remoteSdp = w.sdp
            /\ handler = w.handler
            /\ pc = w.pc
            /\ transport = w.transport
            /\ handles = w.handles
            /\ tasks = w.tasks
            /\ device = Device_init
            /\ result = [op |-> None, arg |-> None, err |-> NoError,
                         val |-> Nothing]

\* the application calls produceData()
StreamProduceData ==
    /\ \E n \in EarlierCalls :
           n <= Len(handles) /\ Len(handles) < n + MaxNewCalls
    /\ SetWorld(Transport_produceData(World, ToString(Len(handles) + 1),
                                      DefaultDataOptions, None).w)
    /\ UNCHANGED result

\* the application closes DataProducer h
StreamClose(h) ==
    /\ ~handles[h].closed
    /\ SetWorld(Handle_close(World, h, None).w)
    /\ UNCHANGED result

NextStreams ==
    \/ StreamProduceData
    \/ \E h \in 1 .. MaxClosable : h <= Len(handles) /\ StreamClose(h)

SpecStreams == InitStreams /\ [][NextStreams]_vars

\* C39: the SCTP stream id of the k-th data producer of a send Transport is
\* (k - 1) mod 1024 (one id in the model for the native data channel and for
\* sctpStreamParameters, as both are read from _nextSendSctpStreamId), and
\* it is the stream id of no data producer open at that time.
C39_StreamIdsCountUpAndAreUnique ==
    [][Len(handles') = Len(handles) + 1
          => LET k == Len(handles')
             IN  /\ handles'[k].streamId = (k - 1) % SctpNumStreams
                 /\ \A h \in 1 .. Len(handles) :
                       ~handles'[h].closed
                           => handles'[h].streamId # handles'[k].streamId]_vars

(***************************************************************************)
(* common_utils.py : extractRtpCapabilities                                *)
(***************************************************************************)
MaxMedia == 3              \* media sections of a parsed description

\* codecsMap[key] = value : a dict keeps the place of a key it already has
MapSet(map, key, value) ==
    IF \E i \in 1 .. Len(map) : map[i].key = key
    THEN [i \in 1 .. Len(map) |->
             IF map[i].key = key THEN [key |-> key, value |-> value] ELSE map[i]]
    ELSE Append(map, [key |-> key, value |-> value])
MapHas(map, key) == \E i \in 1 .. Len(map) : map[i].key = key
MapValues(map) == [i \in 1 .. Len(map) |-> map[i].value]

\* RtpCodecCapability(kind=kind, mimeType=f"{kind}/{rtp.get('codec','')}",
\* preferredPayloadType=rtp.get('payload'), ..., rtcpFeedback=[])
RtpCodecCapability(kind, rtp) ==
    [kind |-> kind, mimeType |-> <<kind, "/", rtp.codec>>,
     preferredPayloadType |-> rtp.payload, rtcpFeedback |-> <<>>]

\* RtpHeaderExtension(kind=kind, uri=ext.get('uri'), preferredId=ext.get('value'))
RtpHeaderExtension(kind, ext) ==
    [kind |-> kind, uri |-> ext.uri, preferredId |-> ext.value]

\* `for rtp in m.get('rtp', [])`
RECURSIVE GetCodecs(_, _, _)
GetCodecs(codecsMap, kind, rtps) ==
    IF rtps = <<>> THEN codecsMap
    ELSE GetCodecs(MapSet(codecsMap, Head(rtps).payload,
                          RtpCodecCapability(kind, Head(rtps))),
                   kind, Tail(rtps))

\* `for fb in m.get('rtcpFb', [])` : codec.rtcpFeedback.append(feedback) on
\* the codec the map has for the payload
RECURSIVE GetRtcpFeedback(_, _)
GetRtcpFeedback(codecsMap, fbs) ==
    IF fbs = <<>> THEN codecsMap
    ELSE LET fb == Head(fbs)
             appended ==
                 [i \in 1 .. Len(codecsMap) |->
                     IF codecsMap[i].key = fb.payload
                     THEN [codecsMap[i] EXCEPT
                              !.value.rtcpFeedback = Append(@, fb.type)]
                     ELSE codecsMap[i]]
         IN  GetRtcpFeedback(appended, Tail(fbs))

\* `for ext in m.get('ext')` : extensions with an encrypt-uri are skipped
RECURSIVE GetHeaderExtensions(_, _, _)
GetHeaderExtensions(headerExtensions, kind, exts) ==
    IF exts = <<>> THEN headerExtensions
    ELSE GetHeaderExtensions(
             IF Head(exts).encrypt THEN headerExtensions
             ELSE Append(headerExtensions, RtpHeaderExtension(kind, Head(exts))),
             kind, Tail(exts))

ExtractState(err, codecsMap, headerExtensions, gotAudio, gotVideo) ==
    [err |-> err, codecsMap |-> codecsMap, headerExtensions |-> headerExtensions,
     gotAudio |-> gotAudio, gotVideo |-> gotVideo]

\* the body of the loop for a section that is not skipped
ExtractSection(st, m) ==
    LET codecsMap == GetRtcpFeedback(GetCodecs(st.codecsMap, m.type, m.rtp),
                                     m.rtcpFb)
    IN  IF m.ext = Nothing      \* m.get('ext') is None : not iterable
        THEN [st EXCEPT !.err = TypeError, !.codecsMap = codecsMap]
        ELSE [st EXCEPT !.codecsMap = codecsMap,
                        !.headerExtensions =
                            GetHeaderExtensions(@, m.type, m.ext[1])]

\* `for m in sdpDict.get('media', [])` : `gotAudio = True` for an audio
\* section; for a video section the assignment is `getVideo = True`, which
\* leaves gotVideo as it was
RECURSIVE extractMedia(_, _)
extractMedia(st, media) ==
    IF media = <<>> \/ st.err # NoError THEN st
    ELSE LET m == Head(media)
         IN  IF m.type = "audio" /\ st.gotAudio
             THEN extractMedia(st, Tail(media))
             ELSE IF m.type = "video" /\ st.gotVideo
             THEN extractMedia(st, Tail(media))
             ELSE extractMedia(
                      ExtractSection(
                          [st EXCEPT !.gotAudio = @ \/ m.type = "audio"], m),
                      Tail(media))

\* extractRtpCapabilities
extractRtpCapabilities(media) ==
    LET st == extractMedia(ExtractState(NoError, <<>>, <<>>, FALSE, FALSE), media)
    IN  [err |-> st.err,
         val |-> [codecs |-> MapValues(st.codecsMap),
                  headerExtensions |-> st.headerExtensions]]

\* the media sections of the descriptions: rtp (a=rtpmap), rtcpFb
\* (a=rtcp-fb), ext (a=extmap, absent in a section that has none)
Rtp(payload, codec) == [payload |-> payload, codec |-> codec]
Ext(value, uri, encrypt) == [value |-> value, uri |-> uri, encrypt |-> encrypt]
MediaDict(type, rtp, rtcpFb, ext) ==
    [type |-> type, rtp |-> rtp, rtcpFb |-> rtcpFb, ext |-> ext]
SectionInputs ==
    {MediaDict("audio", <<Rtp(96, "opus")>>, <<>>,
               Some(<<Ext(1, "urn:ietf:params:rtp-hdrext:sdes:mid", FALSE)>>)),
     MediaDict("audio", <<Rtp(0, "PCMU"), Rtp(96, "opus")>>, <<>>,
               Some(<<Ext(2, "urn:ietf:params:rtp-hdrext:ssrc-audio-level", FALSE)>>)),
     MediaDict("video", <<Rtp(97, "VP8")>>, <<[payload |-> 97, type |-> "nack"]>>,
               Some(<<Ext(1, "urn:ietf:params:rtp-hdrext:sdes:mid", FALSE),
                      Ext(3, "urn:3gpp:video-orientation", TRUE)>>)),
     MediaDict("video", <<Rtp(98, "H264"), Rtp(97, "VP8")>>,
               <<[payload |-> 98, type |-> "nack"]>>,
               Some(<<Ext(4, "http://www.webrtc.org/experiments/rtp-hdrext/abs-send-time",
                          FALSE)>>)),
     MediaDict("application", <<>>, <<>>, Nothing)}
MediaInputs ==
    UNION {[1 .. n -> SectionInputs] : n \in 0 .. MaxMedia}

InitExtract ==
    /\ remoteSdp = RemoteSdp_init(TransportIceParameters, TRUE)
    /\ handler = AiortcHandler_init("send")
    /\ pc = RTCPeerConnection_init
    /\ transport = Transport_init("send", {}, FALSE, CanProduceByKind,
                                  ExtendedRtpCapabilities)
    /\ handles = <<>>
    /\ tasks = {}
    /\ device = Device_init
    /\ \E media \in MediaInputs :
           result = [op |-> None, arg |-> media, err |-> NoError, val |-> Nothing]

\* common_utils.extractRtpCapabilities(sdpDict)
ExtractRtpCapabilities ==
    /\ result.op = None
    /\ LET r == extractRtpCapabilities(result.arg)
       IN  OrtcResult("extractRtpCapabilities", result.arg, r.err, Some(r.val))

NextExtract == ExtractRtpCapabilities

SpecExtract == InitExtract /\ [][NextExtract]_vars

\* the first section of a kind, as a sequence of at most one section
FirstOfKind(media, kind) ==
    LET ofKind == SelectSeq(media, LAMBDA m : m.type = kind)
    IN  IF ofKind = <<>> THEN <<>> ELSE <<Head(ofKind)>>

\* what the first section of a kind alone gives
FromFirst(media, kind) == extractRtpCapabilities(FirstOfKind(media, kind)).val

\* the result holds, for this kind, the codecs and header extensions of the
\* first section of the kind and no other
OnlyFirstOfKind(media, val, kind) ==
    /\ SelectSeq(val.codecs, LAMBDA c : c.kind = kind)
           = FromFirst(media, kind).codecs
    /\ SelectSeq(val.headerExtensions, LAMBDA e : e.kind = kind)
           = FromFirst(media, kind).headerExtensions

\* C40: extractRtpCapabilities takes codecs and header extensions from the
\* first section of each kind only, for audio and for video alike: a second
\* audio or video section adds no codec and no header extension.
C40_FirstSectionOfEachKindOnly ==
    (result.op = "extractRtpCapabilities" /\ result.err = NoError)
        => \A kind \in MediaKinds :
               OnlyFirstOfKind(result.arg, result.val[1], kind)

====
